---- MODULE Spec2Model ----
(***************************************************************************)
(* Model of cInkbirdBtTHSensorAccessory (src/InkbirdBtTHSensorAccessory.js) *)
(* the poll scheduler RunStatemachine, the decoder parseStatus, the         *)
(* request entry points get<Kind>, and the environment it lives in: the    *)
(* noble radio (stateChange / discover events, startScanning /             *)
(* stopScanning commands) and the timer facility (setInterval /            *)
(* clearTimeout).                                                          *)
(*                                                                         *)
(* Conventions.                                                            *)
(*  - A JavaScript value that may be undefined is a set with at most one   *)
(*    element: {} is undefined, {v} is the value v.                        *)
(*  - Temperatures and humidity are kept in hundredths of the unit: the    *)
(*    code computes (raw + offset)/100 and clamps at -273.15 resp. 0 and   *)
(*    100; the model keeps raw + offset and clamps at -27315 resp. 0 and   *)
(*    10000, so a modelled value v stands for the JavaScript number v/100. *)
(*  - A Buffer is a sequence of bytes; byte offset o is element o + 1.     *)
(***************************************************************************)
EXTENDS Integers, Sequences, FiniteSets, TLC

VARIABLES
    self,       \* the accessory object's fields
    timers,     \* timer facility: live interval timers and the last id handed out
    noble,      \* the shared radio: whether a scan is commanded
    trace,      \* what the last invocation did to its collaborators, in order
    nCalls,     \* per caller continuation: how often it has been invoked
    nextCb,     \* number of continuations handed to get<Kind> so far
    thrown,     \* error that escaped the last invocation ("" when none)
    fired,      \* the timer whose firing made the last invocation (0 when none)
    peer        \* the fields of a second accessory object on the same radio
                \* (undefined where the process holds one accessory)

vars == <<self, timers, noble, trace, nCalls, nextCb, thrown, fired, peer>>

-----------------------------------------------------------------------------
(* Bounds of the model *)

\* Number of poll requests (continuations) issued in one behaviour.
MaxReq == 2

\* The same in a behaviour of the fair specification.
MaxLiveReq == 1

-----------------------------------------------------------------------------
(* Optional values *)

undefined == {}

Val(x) == CHOOSE v \in x : TRUE

-----------------------------------------------------------------------------
(* Constants of the source *)

ESTATES == [NOT_READY |-> 1, STATUS_INVALID |-> 2, SCANNING |-> 3, READY4ANSWER |-> 4]

\* DDMODELS: the sentinel entry (value 0 in the source) is the record with
\* sentinel = TRUE; its other fields are never read by the code.
DDMODELS ==
    [m \in {"IBS-TH1", "IBS-TH1-Plus", "IBS-TH2", "IBS-TH2-Plus", "not in list - try it anyway"} |->
        [sentinel     |-> (m = "not in list - try it anyway"),
         datalength   |-> 9,
         localName    |-> "sps",
         serviceDat   |-> undefined,
         serviceUuids |-> "fff0",
         dualView     |-> (m \in {"IBS-TH1-Plus", "IBS-TH2-Plus"})]]

\* The five quantity kinds, in the order READY4ANSWER services them.
Kinds == <<"Temperature", "Humidity", "ExtSensor", "BatteryLevel", "LowBattery">>

KindSet == {Kinds[i] : i \in 1..Len(Kinds)}

\* Delays of the three timers, in milliseconds.
RetryMs == 5000

DiscoveryMs == 15000

DefaultValiditySec == 10

MinUpdateInt == 5

-----------------------------------------------------------------------------
(* Buffer reads (Node.js Buffer) *)

\* buf.readUIntLE(offset, byteLength) needs offset + byteLength <= buf.length,
\* otherwise it throws a RangeError.
InRange(buf, offset, byteLength) == offset + byteLength <= Len(buf)

RECURSIVE readUIntLE(_, _, _)
readUIntLE(buf, offset, byteLength) ==
    IF byteLength = 0 THEN 0
    ELSE buf[offset + 1] + 256 * readUIntLE(buf, offset + 1, byteLength - 1)

RECURSIVE Pow2(_)
Pow2(n) == IF n = 0 THEN 1 ELSE 2 * Pow2(n - 1)

\* buf.readIntLE(offset, byteLength): two's complement of the unsigned value.
readIntLE(buf, offset, byteLength) ==
    LET u == readUIntLE(buf, offset, byteLength)
    IN  IF u >= Pow2(8 * byteLength - 1) THEN u - Pow2(8 * byteLength) ELSE u

-----------------------------------------------------------------------------
(* Checksum engine: ./CRC16_0x18005 is required by the accessory but is not *)
(* among the sources; it is modelled from the specification, section 4.1.  *)

\* The helpers are functions, so that their arguments are values.
Xor[a \in Nat, b \in Nat] ==
    IF a = 0 THEN b
    ELSE IF b = 0 THEN a
    ELSE (((a % 2) + (b % 2)) % 2) + 2 * Xor[a \div 2, b \div 2]

\* The low `bits` bits of x in reverse order.
Reflect[x \in Nat, bits \in Nat] ==
    IF bits = 0 THEN 0
    ELSE (x % 2) * Pow2(bits - 1) + Reflect[x \div 2, bits - 1]

\* The polynomial 0x18005.
Poly == 98309

\* n shifts of the 16-bit accumulator.
CrcShift[acc \in Nat, n \in Nat] ==
    IF n = 0 THEN acc
    ELSE CrcShift[IF acc >= 32768 THEN Xor[2 * acc, Poly] ELSE 2 * acc, n - 1]

\* The accumulator after the bytes offset .. offset + length - 1 of buf.
CrcBytes[buf \in Seq(Nat), offset \in Nat, length \in Nat, reflectInput \in BOOLEAN, acc \in Nat] ==
    IF length = 0 THEN acc
    ELSE CrcBytes[buf, offset + 1, length - 1, reflectInput,
                  CrcShift[Xor[acc, 256 * (IF reflectInput THEN Reflect[buf[offset + 1], 8]
                                           ELSE buf[offset + 1])], 8]]

\* crc16(bytes, offset, length, reflectInput, reflectOutput, seed, finalXor):
\* processes exactly `length` bytes starting at `offset`.
CRC16_0x18005(cBuffer, iOffset, iLength, bReflectIn, bReflectOut, iInitVal, iFinalXOR) ==
    Xor[IF bReflectOut
        THEN Reflect[CrcBytes[cBuffer, iOffset, iLength, bReflectIn, iInitVal], 16]
        ELSE CrcBytes[cBuffer, iOffset, iLength, bReflectIn, iInitVal],
        iFinalXOR]

\* Number of bytes the accessory hands to the checksum engine (third argument
\* of the call in parseStatus).
CrcLengthArg == 4

-----------------------------------------------------------------------------
(* Frames: the manufacturer data buffers of the model *)

\* A frame as the sensor sends it (src/index.js, lines 20-28): temperature,
\* humidity, sensor byte, CRC-16/MODBUS of these five bytes, battery, 0x08.
FrameData(temp, hum, sensor) ==
    <<temp % 256, (temp \div 256) % 256, hum % 256, (hum \div 256) % 256, sensor>>

DeviceFrame(temp, hum, sensor, batt) ==
    LET crc == CRC16_0x18005(FrameData(temp, hum, sensor), 0, 5, TRUE, TRUE, 65535, 0)
    IN  FrameData(temp, hum, sensor) \o <<crc % 256, crc \div 256, batt, 8>>

\* The same frame with bytes 5-6 replaced by the 16-bit value v.
WithBytes56(frame, v) ==
    [frame EXCEPT ![6] = v % 256, ![7] = (v \div 256) % 256]

\* A frame the sensor sends; the same frame with bytes 5-6 holding the
\* checksum the accessory computes; a frame of the external probe whose bytes
\* 5-6 hold 21.00 degrees; and two truncated frames.
Frames ==
    { DeviceFrame(1800, 5000, 0, 80),
      WithBytes56(DeviceFrame(1800, 5000, 0, 80),
                  CRC16_0x18005(DeviceFrame(1800, 5000, 0, 80), 0, CrcLengthArg, TRUE, TRUE, 65535, 0)),
      WithBytes56(DeviceFrame(2250, 4000, 1, 5), 2100),
      SubSeq(DeviceFrame(1800, 5000, 0, 80), 1, 8),
      SubSeq(DeviceFrame(1800, 5000, 0, 80), 1, 4) }

\* A frame whose bytes 5-6 hold the checksum the accessory computes.
CheckedFrame(temp, hum, sensor, batt) ==
    WithBytes56(FrameData(temp, hum, sensor) \o <<0, 0, batt, 8>>,
                CRC16_0x18005(FrameData(temp, hum, sensor), 0, CrcLengthArg, TRUE, TRUE, 65535, 0))

\* Raw temperatures (signed, hundredths): the ends of the 16-bit range and
\* the values around -273.15 degrees without and with the offsets of the
\* model; raw humidities (unsigned, hundredths): the ends of the range and the
\* values around 0 % and 100 %.
RawTemperatures ==
    {-32768, -27816, -27815, -27814, -27316, -27315, -27314, -26816, -26815, -26814, 2250, 32767}

RawHumidities == {0, 499, 500, 501, 5000, 9499, 9500, 9501, 10000, 10001, 65535}

\* Frames of both sensor flags with each temperature, of each humidity, frames
\* of the external probe whose bytes 5-6 hold each temperature, and two frames
\* as the sensor sends them.
DecodeFrames ==
    {CheckedFrame(t, 5000, s, 80) : t \in RawTemperatures, s \in {0, 1}}
    \cup {CheckedFrame(1800, h, 0, 80) : h \in RawHumidities}
    \cup {WithBytes56(CheckedFrame(2250, 4000, 1, 5), t) : t \in RawTemperatures}
    \cup {DeviceFrame(1800, 5000, 0, 80), DeviceFrame(2250, 4000, 1, 5)}

\* The call of line 483, CRC16_0x18005(self.cRawStatus, 0, 4, true, true,
\* 0xFFFF, 0x0), for every frame of the model that reaches it, computed once.
CrcTable ==
    {<<f, CRC16_0x18005(f, 0, CrcLengthArg, TRUE, TRUE, 65535, 0)>> :
        f \in {g \in Frames \cup DecodeFrames : Len(g) >= 8}}

CrcOfStatus(cRawStatus) == (CHOOSE p \in CrcTable : p[1] = cRawStatus)[2]

-----------------------------------------------------------------------------
(* parseStatus: decode self.cRawStatus into the reading fields *)

IsSentinel(dSensorCfg) == dSensorCfg # undefined /\ Val(dSensorCfg).sentinel

\* Variant of ClampTemperature: no floor.
ClampTemperatureOff(v) == v

ClampTemperature(v) == IF v < -27315 THEN -27315 ELSE v

\* Variant of ClampHumidity: the floor only.
ClampHumidityFloorOnly(v) == IF v < 0 THEN 0 ELSE v

ClampHumidity(v) == IF v < 0 THEN 0 ELSE IF v > 10000 THEN 10000 ELSE v

\* Lines 504-516: the externally visible temperature and sensor flag per the
\* configured selection.
ResolveSensor(s) ==
    IF s.strSensor = "auto"
    THEN [s EXCEPT !.fTemperature =
             IF Val(s.bExternalSensor) THEN s.fExtTemperature ELSE s.fIntTemperature]
    ELSE IF s.strSensor = "internal"
    THEN [s EXCEPT !.bExternalSensor = {FALSE}, !.fTemperature = s.fIntTemperature]
    ELSE [s EXCEPT !.bExternalSensor = {TRUE}, !.fTemperature = s.fExtTemperature]

\* Variant of ParseSingleView: the temperature is decoded after a CRC error
\* as well.
ParseSingleViewUnchecked(s, buf, iCRC) ==
    IF Val(s.bExternalSensor)
    THEN [ret |-> ~IsSentinel(s.dSensorCfg) /\ iCRC # readUIntLE(buf, 5, 2),
          s   |-> [s EXCEPT
                     !.iCRC = {iCRC},
                     !.fExtTemperature = {ClampTemperature(readIntLE(buf, 0, 2) + s.fOffsetExtTemperature)}]]
    ELSE [ret |-> ~IsSentinel(s.dSensorCfg) /\ iCRC # readUIntLE(buf, 5, 2),
          s   |-> [s EXCEPT
                     !.iCRC = {iCRC},
                     !.fIntTemperature = {ClampTemperature(readIntLE(buf, 0, 2) + s.fOffsetIntTemperature)}]]

\* Lines 483-500: the branch of a frame that is not decoded as a dual view,
\* with the checksum iCRC computed at line 483. ret = TRUE is the early return
\* on a CRC error (line 487).
ParseSingleView(s, buf, iCRC) ==
    IF ~IsSentinel(s.dSensorCfg) /\ iCRC # readUIntLE(buf, 5, 2)
    THEN [ret |-> TRUE, s |-> [s EXCEPT !.iCRC = {iCRC}]]
    ELSE IF Val(s.bExternalSensor)
    THEN [ret |-> FALSE,
          s   |-> [s EXCEPT
                     !.iCRC = {iCRC},
                     !.fIntTemperature = undefined,
                     !.fExtTemperature = {ClampTemperature(readIntLE(buf, 0, 2) + s.fOffsetExtTemperature)}]]
    ELSE [ret |-> FALSE,
          s   |-> [s EXCEPT
                     !.iCRC = {iCRC},
                     !.fIntTemperature = {ClampTemperature(readIntLE(buf, 0, 2) + s.fOffsetIntTemperature)},
                     !.fExtTemperature = undefined]]

\* Variant of ParseTemperatures: in the dual-view branch bytes 0-1 are taken
\* as the internal and bytes 5-6 as the external temperature.
ParseTemperaturesSwapped(s, buf) ==
    IF s.bDualViewSensor /\ Val(s.bExternalSensor)
    THEN [ret |-> FALSE,
          s   |-> [s EXCEPT
                     !.fIntTemperature = {ClampTemperature(readIntLE(buf, 0, 2) + s.fOffsetIntTemperature)},
                     !.fExtTemperature = {ClampTemperature(readIntLE(buf, 5, 2) + s.fOffsetExtTemperature)}]]
    ELSE ParseSingleView(s, buf, CrcOfStatus(buf))

\* Variant of ParseTemperatures: the dual-view layout applies to every
\* variant.
ParseTemperaturesAnyVariant(s, buf) ==
    IF Val(s.bExternalSensor)
    THEN [ret |-> FALSE,
          s   |-> [s EXCEPT
                     !.fIntTemperature = {ClampTemperature(readIntLE(buf, 5, 2) + s.fOffsetIntTemperature)},
                     !.fExtTemperature = {ClampTemperature(readIntLE(buf, 0, 2) + s.fOffsetExtTemperature)}]]
    ELSE ParseSingleView(s, buf, CrcOfStatus(buf))

\* Lines 473-500 for a buffer of at least 8 bytes.
ParseTemperatures(s, buf) ==
    IF s.bDualViewSensor /\ Val(s.bExternalSensor)
    THEN [ret |-> FALSE,
          s   |-> [s EXCEPT
                     !.fIntTemperature = {ClampTemperature(readIntLE(buf, 5, 2) + s.fOffsetIntTemperature)},
                     !.fExtTemperature = {ClampTemperature(readIntLE(buf, 0, 2) + s.fOffsetExtTemperature)}]]
    ELSE ParseSingleView(s, buf, CrcOfStatus(buf))

\* Variant of ParseResolve: the sensor selection is applied after a CRC
\* error as well.
ParseResolveAlways(r) == [s |-> ResolveSensor(r.s), err |-> ""]

\* Lines 487 and 504-516: return on a CRC error, otherwise resolve the
\* temperature shown.
ParseResolve(r) ==
    IF r.ret THEN [s |-> r.s, err |-> ""]
    ELSE [s |-> ResolveSensor(r.s), err |-> ""]

\* Variant of ResetReading: the temperatures are kept.
ResetReadingKeepingTemperatures(s) ==
    [s EXCEPT !.fIntHumidity = undefined, !.bExternalSensor = undefined,
              !.fBatteryLevel = undefined]

\* Lines 457-462: the reading fields are reset first.
ResetReading(s) ==
    [s EXCEPT !.fIntTemperature = undefined, !.fExtTemperature = undefined,
              !.fTemperature = undefined, !.fIntHumidity = undefined,
              !.bExternalSensor = undefined, !.fBatteryLevel = undefined]

\* Lines 467-471 on the reset object s0: a read beyond the buffer throws a
\* RangeError at that read, leaving the fields assigned before it.
ParseFields(s0, buf) ==
    IF ~InRange(buf, 4, 1) THEN [s |-> s0, err |-> "RangeError"]
    ELSE IF ~InRange(buf, 7, 1)
    THEN [s   |-> [s0 EXCEPT
                     !.bExternalSensor = {readUIntLE(buf, 4, 1) = 1},
                     !.fIntHumidity = {ClampHumidity(readUIntLE(buf, 2, 2) + s0.fOffsetIntHumidity)}],
          err |-> "RangeError"]
    ELSE ParseResolve(ParseTemperatures(
             [s0 EXCEPT
                !.bExternalSensor = {readUIntLE(buf, 4, 1) = 1},
                !.fIntHumidity = {ClampHumidity(readUIntLE(buf, 2, 2) + s0.fOffsetIntHumidity)},
                !.fBatteryLevel = {readUIntLE(buf, 7, 1)}],
             buf))

\* parseStatus(), lines 453-523: the object after the call and the error it
\* threw ("" when it returned).
parseStatus(s) ==
    IF s.cRawStatus = undefined THEN [s |-> ResetReading(s), err |-> ""]
    ELSE ParseFields(ResetReading(s), Val(s.cRawStatus))

-----------------------------------------------------------------------------
(* The machine: the object together with its collaborators.                *)
(* m = [self, timers, noble, trace, nCalls, thrown]; the operators below   *)
(* take the machine through one statement or block of the source.          *)

\* Continuations held in the fCallback<Kind> fields.
Caller(id) == [fn |-> "caller", id |-> id]

\* self.update<Kind>, the pusher stored when no caller waits (lines 643-647).
UpdateFn == [fn |-> "update", id |-> 0]

NoFn == [fn |-> "", id |-> 0]

\* One entry of the trace.
Ev(op, kind, cb, val) == [op |-> op, kind |-> kind, cb |-> cb, val |-> val]

Emit(m, e) == [m EXCEPT !.trace = Append(@, e)]

\* clearTimeout(id): also ends an interval timer.
clearTimeout(m, id) ==
    Emit([m EXCEPT !.timers.live = {t \in @ : t.id # id}],
         Ev("clearTimeout", "", NoFn, {id}))

\* Variant of stopTimeout: the id is forgotten, the timer is left running.
stopTimeoutForgetting(m) == [m EXCEPT !.self.iTimeoutId = undefined]

\* Lines 530-540.
stopTimeout(m) ==
    IF m.self.iTimeoutId # undefined
    THEN [clearTimeout(m, Val(m.self.iTimeoutId)) EXCEPT !.self.iTimeoutId = undefined]
    ELSE m

\* A timer object never handed out while live, and distinct from the one
\* handed out last.
FreshTimer(tm) ==
    CHOOSE i \in 1..(Cardinality(tm.live) + 2) :
        /\ i # tm.last
        /\ \A t \in tm.live : t.id # i
        /\ \A j \in 1..(i - 1) : j = tm.last \/ \E t \in tm.live : t.id = j

\* self.iTimeoutId = setInterval(self.RunStatemachine.bind(self), ms, true, false, undefined)
setInterval(m, ms) ==
    LET id == FreshTimer(m.timers)
    IN  Emit([m EXCEPT !.timers.live = @ \cup {[id |-> id, ms |-> ms]},
                       !.timers.last = id,
                       !.self.iTimeoutId = {id}],
             Ev("setInterval", "", NoFn, {ms}))

\* noble.startScanning() and noble.stopScanning(); the trace entry records the
\* state the scheduler is in when it gives the command and whether a scan it
\* started is running.
Radio(m) == IF m.noble.scanning THEN "scanning" ELSE "idle"

startScanning(m) ==
    Emit([m EXCEPT !.noble.scanning = TRUE],
         Ev("startScanning", Radio(m), NoFn, {m.self.eState}))

stopScanning(m) ==
    Emit([m EXCEPT !.noble.scanning = FALSE],
         Ev("stopScanning", Radio(m), NoFn, {m.self.eState}))

\* Lines 554-562: the statements before the loop.
\* Variant of Reset: going off drops the continuations that wait.
ResetDroppingRequests(m) ==
    IF ~m.self.bHWReady /\ m.self.eState # ESTATES.NOT_READY
    THEN [stopScanning(m) EXCEPT !.self.eState = ESTATES.NOT_READY,
                                 !.self.fCallback = [k \in KindSet |-> undefined]]
    ELSE m

\* Variant of Reset: READY4ANSWER is kept while the radio is off.
ResetExceptReady(m) ==
    IF ~m.self.bHWReady /\ m.self.eState \notin {ESTATES.NOT_READY, ESTATES.READY4ANSWER}
    THEN [stopScanning(m) EXCEPT !.self.eState = ESTATES.NOT_READY]
    ELSE m

Reset(m) ==
    IF ~m.self.bHWReady /\ m.self.eState # ESTATES.NOT_READY
    THEN [stopScanning(m) EXCEPT !.self.eState = ESTATES.NOT_READY]
    ELSE m

Guard(m, bTimeout) == Reset(IF bTimeout THEN stopTimeout(m) ELSE m)

\* Variant of PassNotReady: NOT_READY is left whatever the radio reported.
PassNotReadyAnyPower(m) ==
    [stopTimeout(m) EXCEPT !.self.eState = ESTATES.STATUS_INVALID]

\* Variant of PassNotReady: the request flag is cleared when the radio is on.
PassNotReadyForgetting(m) ==
    IF m.self.bHWReady
    THEN [stopTimeout(m) EXCEPT !.self.eState = ESTATES.STATUS_INVALID,
                                !.self.bQueryStarted = FALSE]
    ELSE setInterval(stopTimeout(m), RetryMs)

\* Variant of PassNotReady: no retry timer while the radio is off.
PassNotReadyWithoutRetry(m) ==
    IF m.self.bHWReady
    THEN [stopTimeout(m) EXCEPT !.self.eState = ESTATES.STATUS_INVALID]
    ELSE stopTimeout(m)

\* Lines 570-584.
PassNotReady(m) ==
    IF m.self.bHWReady
    THEN [stopTimeout(m) EXCEPT !.self.eState = ESTATES.STATUS_INVALID]
    ELSE setInterval(stopTimeout(m), RetryMs)

\* Variant of PassStatusInvalid: only a waiting request starts a scan.
PassStatusInvalidOnRequest(m) ==
    IF m.self.bQueryStarted
    THEN [setInterval(startScanning(stopTimeout(m)), DiscoveryMs)
            EXCEPT !.self.eState = ESTATES.SCANNING]
    ELSE stopTimeout(m)

\* Variant of PassStatusInvalid: the radio's scan is restarted.
PassStatusInvalidRestart(m) ==
    IF m.self.bQueryStarted \/ m.self.iUpdateInt # undefined
    THEN [setInterval(startScanning(stopScanning(stopTimeout(m))), DiscoveryMs)
            EXCEPT !.self.eState = ESTATES.SCANNING]
    ELSE stopTimeout(m)

\* Variant of PassStatusInvalid: a scan is started whenever the state is
\* reached.
PassStatusInvalidAlways(m) ==
    [setInterval(startScanning(stopTimeout(m)), DiscoveryMs)
        EXCEPT !.self.eState = ESTATES.SCANNING]

\* Lines 586-597.
PassStatusInvalid(m) ==
    IF m.self.bQueryStarted \/ m.self.iUpdateInt # undefined
    THEN [setInterval(startScanning(stopTimeout(m)), DiscoveryMs)
            EXCEPT !.self.eState = ESTATES.SCANNING]
    ELSE stopTimeout(m)

\* Array.prototype.toString: the elements joined by commas. The loose
\* comparison of the serviceUuids array with a string compares this text.
RECURSIVE ArrayToString(_)
ArrayToString(arr) ==
    IF Len(arr) = 0 THEN ""
    ELSE IF Len(arr) = 1 THEN arr[1]
    ELSE arr[1] \o "," \o ArrayToString(Tail(arr))

\* Variant of Plausible: the length of the manufacturer data is not compared.
PlausibleWithoutLength(cfg, adv) ==
    /\ adv.localName = {cfg.localName}
    /\ adv.serviceDat = cfg.serviceDat
    /\ ArrayToString(adv.serviceUuids) = cfg.serviceUuids

\* Variant of Plausible: manufacturer data shorter than datalength passes.
PlausibleUpToLength(cfg, adv) ==
    /\ Len(Val(adv.manufacturerData)) <= cfg.datalength
    /\ adv.localName = {cfg.localName}
    /\ adv.serviceDat = cfg.serviceDat
    /\ ArrayToString(adv.serviceUuids) = cfg.serviceUuids

\* Lines 611-614: the four shape checks, for a peripheral that carries
\* manufacturer data.
Plausible(cfg, adv) ==
    /\ Len(Val(adv.manufacturerData)) = cfg.datalength
    /\ adv.localName = {cfg.localName}
    /\ adv.serviceDat = cfg.serviceDat
    /\ ArrayToString(adv.serviceUuids) = cfg.serviceUuids

Throw(m, err) == [m EXCEPT !.thrown = err]

\* Lines 618-619: the manufacturer data is stored and the log tells the
\* address of the peripheral found; the trace entry holds its advertisement.
Accept(m, cPeripheral) ==
    Emit([m EXCEPT !.self.cRawStatus = cPeripheral.advertisement.manufacturerData],
         Ev("found", cPeripheral.address, NoFn, {cPeripheral.advertisement}))

\* Lines 622-627: with an address configured, a peripheral that fails the
\* plausibility check is logged with what was found.
Implausible(m, cPeripheral) ==
    IF m.self.strMAC # ""
    THEN Emit(m, Ev("implausible", cPeripheral.address, NoFn, {cPeripheral.advertisement}))
    ELSE m

\* Variant of ScanDiscover: the sentinel accepts a peripheral of any address.
ScanDiscoverAnyAddress(m, cPeripheral) ==
    IF IsSentinel(m.self.dSensorCfg)
    THEN IF cPeripheral.advertisement.manufacturerData = undefined
         THEN Throw(Accept(m, cPeripheral), "TypeError")
         ELSE Accept(m, cPeripheral)
    ELSE IF ~(cPeripheral.address = m.self.strMAC \/ m.self.strMAC = "") THEN m
    ELSE IF cPeripheral.advertisement.manufacturerData = undefined THEN Throw(m, "TypeError")
    ELSE IF Plausible(Val(m.self.dSensorCfg), cPeripheral.advertisement)
    THEN Accept(m, cPeripheral)
    ELSE Implausible(m, cPeripheral)

\* Lines 605-629: the discovered peripheral is accepted (cRawStatus set) or
\* rejected. Reading .length of absent manufacturer data, and calling
\* .toString on an absent cRawStatus for the debug message, throw a TypeError.
ScanDiscover(m, cPeripheral) ==
    IF ~(cPeripheral.address = m.self.strMAC \/ m.self.strMAC = "") THEN m
    ELSE IF IsSentinel(m.self.dSensorCfg)
    THEN IF cPeripheral.advertisement.manufacturerData = undefined
         THEN Throw(Accept(m, cPeripheral), "TypeError")
         ELSE Accept(m, cPeripheral)
    ELSE IF cPeripheral.advertisement.manufacturerData = undefined THEN Throw(m, "TypeError")
    ELSE IF Plausible(Val(m.self.dSensorCfg), cPeripheral.advertisement)
    THEN Accept(m, cPeripheral)
    ELSE Implausible(m, cPeripheral)

\* Variant of DefaultCallbacks: only the temperature slot gets the update
\* pusher.
DefaultCallbacksTemperatureOnly(fCallback) ==
    [k \in KindSet |-> IF fCallback[k] # undefined THEN fCallback[k]
                       ELSE IF k = "Temperature" THEN {UpdateFn} ELSE undefined]

\* Lines 643-647: a slot without a caller gets the update pusher.
DefaultCallbacks(fCallback) ==
    [k \in KindSet |-> IF fCallback[k] # undefined THEN fCallback[k] ELSE {UpdateFn}]

\* Variant of ScanDone: the validity timer runs for at least 10 s.
ScanDoneAtLeastTen(m) ==
    [setInterval([m EXCEPT !.self.fCallback = DefaultCallbacks(@),
                           !.self.bQueryStarted = FALSE],
                 (IF m.self.iUpdateInt # undefined /\ Val(m.self.iUpdateInt) > DefaultValiditySec
                  THEN Val(m.self.iUpdateInt)
                  ELSE DefaultValiditySec) * 1000)
       EXCEPT !.self.eState = ESTATES.READY4ANSWER]

\* Variant of ScanDone: bQueryStarted is left as it is.
ScanDoneKeepingQuery(m) ==
    [setInterval([m EXCEPT !.self.fCallback = DefaultCallbacks(@)],
                 (IF m.self.iUpdateInt # undefined THEN Val(m.self.iUpdateInt)
                  ELSE DefaultValiditySec) * 1000)
       EXCEPT !.self.eState = ESTATES.READY4ANSWER]

\* Lines 643-652, after parseStatus returned.
ScanDone(m) ==
    [setInterval([m EXCEPT !.self.fCallback = DefaultCallbacks(@),
                           !.self.bQueryStarted = FALSE],
                 (IF m.self.iUpdateInt # undefined THEN Val(m.self.iUpdateInt)
                  ELSE DefaultValiditySec) * 1000)
       EXCEPT !.self.eState = ESTATES.READY4ANSWER]

\* Lines 642-652, p being the outcome of parseStatus: an error it throws
\* leaves RunStatemachine there.
ScanParsed(m, p) ==
    IF p.err # ""
    THEN Throw(Emit([m EXCEPT !.self = p.s], Ev("parseStatus", "", NoFn, {})), p.err)
    ELSE ScanDone(Emit([m EXCEPT !.self = p.s], Ev("parseStatus", "", NoFn, {})))

\* Lines 631-653: leaving SCANNING on timeout or on an accepted peripheral;
\* ScanParse is line 642 on the machine after lines 638-639.
\* Variant of ScanParse: the scan ends without a decode, the reading of the
\* cycle before stays.
ScanParseSkipped(m) == ScanDone(m)

ScanParse(m) == ScanParsed(m, parseStatus(m.self))

\* Variant of ScanFinish: the discovery timer is not cleared.
ScanFinishKeepingTimer(m) == ScanParse(stopScanning(m))

ScanFinish(m) == ScanParse(stopTimeout(stopScanning(m)))

\* Lines 631-655 on the machine after the discover block.
ScanExit(m, bTimeout) ==
    IF m.thrown # "" THEN m
    ELSE IF bTimeout \/ m.self.cRawStatus # undefined THEN ScanFinish(m)
    ELSE m

\* Variant of PassScanning: an invocation that is neither the timeout nor a
\* discovery starts the discovery timer anew.
PassScanningRearming(m, bTimeout, bDiscover, cPeripheral) ==
    IF bTimeout \/ bDiscover
    THEN ScanExit(IF bDiscover /\ m.self.dSensorCfg # undefined
                  THEN ScanDiscover([m EXCEPT !.self.cRawStatus = undefined], cPeripheral)
                  ELSE [m EXCEPT !.self.cRawStatus = undefined],
                  bTimeout)
    ELSE setInterval(stopTimeout([m EXCEPT !.self.cRawStatus = undefined]), DiscoveryMs)

\* Variant of PassScanning: an invocation that is neither the timeout nor a
\* discovery starts the radio's scan anew.
PassScanningRestarting(m, bTimeout, bDiscover, cPeripheral) ==
    IF bTimeout \/ bDiscover
    THEN ScanExit(IF bDiscover /\ m.self.dSensorCfg # undefined
                  THEN ScanDiscover([m EXCEPT !.self.cRawStatus = undefined], cPeripheral)
                  ELSE [m EXCEPT !.self.cRawStatus = undefined],
                  bTimeout)
    ELSE startScanning(stopScanning([m EXCEPT !.self.cRawStatus = undefined]))

\* Lines 599-655.
PassScanning(m, bTimeout, bDiscover, cPeripheral) ==
    ScanExit(IF bDiscover /\ m.self.dSensorCfg # undefined
             THEN ScanDiscover([m EXCEPT !.self.cRawStatus = undefined], cPeripheral)
             ELSE [m EXCEPT !.self.cRawStatus = undefined],
             bTimeout)

\* The value READY4ANSWER hands to the continuation of a kind (lines 664-688).
\* undefined < 10 is false in JavaScript.
AnswerValue(s, kind) ==
    CASE kind = "Temperature"  -> s.fTemperature
      [] kind = "Humidity"     -> s.fIntHumidity
      [] kind = "ExtSensor"    -> s.bExternalSensor
      [] kind = "BatteryLevel" -> s.fBatteryLevel
      [] kind = "LowBattery"   -> {s.fBatteryLevel # undefined /\ Val(s.fBatteryLevel) < 10}

\* A continuation called with (cError, val). A caller's continuation is
\* counted. The update pusher (lines 194-201, 228-235, 262-269, 296-303,
\* 330-337) updates the characteristic when cError == null and does nothing
\* otherwise.
Deliver(m, kind, cb, cError, val) ==
    IF cb.fn = "caller"
    THEN Emit([m EXCEPT !.nCalls[cb.id] = @ + 1],
              Ev(IF cError = "null" THEN "callback" ELSE "callbackError", kind, cb, val))
    ELSE IF cError = "null"
    THEN Emit(m, Ev("updateCharacteristic", kind, cb, val))
    ELSE m

\* Invoking a continuation with (null, val), as lines 664-688 do.
Invoke(m, kind, cb, val) == Deliver(m, kind, cb, "null", val)

RECURSIVE Flush(_, _)
\* Variant of Flush: the slots are left filled.
FlushKeepingSlots(m, i) ==
    IF i > Len(Kinds) THEN m
    ELSE LET k == Kinds[i]
         IN  IF m.self.fCallback[k] # undefined
             THEN Flush(Invoke(m, k, Val(m.self.fCallback[k]), AnswerValue(m.self, k)), i + 1)
             ELSE Flush(m, i + 1)

\* Variant of Flush: the humidity slot is passed over.
FlushSkippingHumidity(m, i) ==
    IF i > Len(Kinds) THEN m
    ELSE LET k == Kinds[i]
         IN  IF m.self.fCallback[k] # undefined /\ k # "Humidity"
             THEN Flush([Invoke(m, k, Val(m.self.fCallback[k]), AnswerValue(m.self, k))
                           EXCEPT !.self.fCallback[k] = undefined], i + 1)
             ELSE Flush(m, i + 1)

\* Lines 661-690, kinds i..5 in order.
Flush(m, i) ==
    IF i > Len(Kinds) THEN m
    ELSE LET k == Kinds[i]
         IN  IF m.self.fCallback[k] # undefined
             THEN Flush([Invoke(m, k, Val(m.self.fCallback[k]), AnswerValue(m.self, k))
                            EXCEPT !.self.fCallback[k] = undefined], i + 1)
             ELSE Flush(m, i + 1)

\* Variant of PassReady4Answer: only the timeout leaves the state.
PassReady4AnswerOnTimeout(m, bTimeout) ==
    IF bTimeout
    THEN [Flush(m, 1) EXCEPT !.self.eState = ESTATES.STATUS_INVALID]
    ELSE Flush(m, 1)

\* Lines 657-697.
PassReady4Answer(m, bTimeout) ==
    IF bTimeout \/ m.self.bQueryStarted
    THEN [Flush(m, 1) EXCEPT !.self.eState = ESTATES.STATUS_INVALID]
    ELSE Flush(m, 1)

\* Lines 566-700: one pass of the loop body.
Pass(m, bTimeout, bDiscover, cPeripheral) ==
    CASE m.self.eState = ESTATES.NOT_READY ->
           PassNotReady([m EXCEPT !.self.eOldState = {m.self.eState}])
      [] m.self.eState = ESTATES.STATUS_INVALID ->
           PassStatusInvalid([m EXCEPT !.self.eOldState = {m.self.eState}])
      [] m.self.eState = ESTATES.SCANNING ->
           PassScanning([m EXCEPT !.self.eOldState = {m.self.eState}],
                        bTimeout, bDiscover, cPeripheral)
      [] m.self.eState = ESTATES.READY4ANSWER ->
           PassReady4Answer([m EXCEPT !.self.eOldState = {m.self.eState}], bTimeout)

\* Lines 564-703: do ... while (eState != eOldState), the flags cleared after
\* the first pass. An error thrown in a pass leaves the loop. Again(m) is the
\* loop condition on the machine after a pass.
\* Variant of Again: the body runs once in an invocation.
AgainNever(m, cPeripheral) == m

RECURSIVE Loop(_, _, _, _)
Again(m, cPeripheral) ==
    IF m.thrown # "" THEN m
    ELSE IF {m.self.eState} # m.self.eOldState
    THEN Loop(Emit(m, Ev("state", "", NoFn, {m.self.eState})), FALSE, FALSE, cPeripheral)
    ELSE m

Loop(m, bTimeout, bDiscover, cPeripheral) ==
    Again(Pass(m, bTimeout, bDiscover, cPeripheral), cPeripheral)

\* Lines 550-706.
RunStatemachine(m, bTimeout, bDiscover, cPeripheral) ==
    Loop(Guard(m, bTimeout), bTimeout, bDiscover, cPeripheral)

-----------------------------------------------------------------------------
(* Construction *)

\* String.prototype.toLowerCase on the address strings of the model.
toLowerCase(str) ==
    CASE str = "AA:BB" -> "aa:bb"
      [] str = "CC:DD" -> "cc:dd"
      [] OTHER         -> str

\* Lines 78-116 and 159-164: the fields of a new object.
Construct(dConfig) ==
    LET strModel   == IF dConfig.model # undefined THEN Val(dConfig.model) ELSE ""
        dSensorCfg == IF strModel \in DOMAIN DDMODELS THEN {DDMODELS[strModel]} ELSE undefined
        bDualView  == IF dSensorCfg # undefined /\ ~IsSentinel(dSensorCfg)
                      THEN Val(dSensorCfg).dualView ELSE FALSE
        Or0(x)     == IF x # undefined THEN Val(x) ELSE 0
    IN  [cRawStatus            |-> undefined,
         fTemperature          |-> undefined,
         fIntTemperature       |-> undefined,
         fExtTemperature       |-> undefined,
         fIntHumidity          |-> undefined,
         bExternalSensor       |-> undefined,
         fBatteryLevel         |-> undefined,
         iCRC                  |-> undefined,
         eState                |-> ESTATES.NOT_READY,
         eOldState             |-> undefined,
         iTimeoutId            |-> undefined,
         fCallback             |-> [k \in KindSet |-> undefined],
         bQueryStarted         |-> FALSE,
         bHWReady              |-> FALSE,
         bDualViewSensor       |-> bDualView,
         strModel              |-> strModel,
         dSensorCfg            |-> dSensorCfg,
         strSensor             |-> IF bDualView /\ dConfig.sensor # undefined
                                   THEN Val(dConfig.sensor) ELSE "auto",
         strMAC                |-> toLowerCase(IF dConfig.mac_address # undefined
                                               THEN Val(dConfig.mac_address) ELSE ""),
         iUpdateInt            |-> IF dConfig.update_interval # undefined
                                   THEN {IF Val(dConfig.update_interval) < MinUpdateInt
                                         THEN MinUpdateInt ELSE Val(dConfig.update_interval)}
                                   ELSE undefined,
         fOffsetIntTemperature |-> Or0(dConfig.offset_int_temperature),
         fOffsetExtTemperature |-> Or0(dConfig.offset_ext_temperature),
         fOffsetIntHumidity    |-> Or0(dConfig.offset_int_humidity)]

\* The machine of a new object before the constructor's RunStatemachine call.
NewMachine(dConfig) ==
    [self   |-> Construct(dConfig),
     timers |-> [live |-> {}, last |-> 0],
     noble  |-> [scanning |-> FALSE],
     trace  |-> <<>>,
     nCalls |-> [id \in 1..MaxReq |-> 0],
     thrown |-> ""]

\* The argument `undefined` of RunStatemachine where no peripheral is passed.
NoPeripheral ==
    [address |-> "",
     advertisement |-> [localName |-> undefined, serviceDat |-> undefined,
                        serviceUuids |-> <<>>, manufacturerData |-> undefined]]

-----------------------------------------------------------------------------
(* Inputs *)

\* Every combination of the advertisement fields.
AllPeripherals ==
    [address : {"aa:bb", "cc:dd"},
     advertisement : [localName        : {{"sps"}, {"tps"}, undefined},
                      serviceDat       : {undefined, {"data"}},
                      serviceUuids     : {<<"fff0">>, <<"fff0", "180a">>, <<>>},
                      manufacturerData : {undefined} \cup {{f} : f \in Frames}]]

\* The sensor's advertisement carrying frame f.
Sensor(f) ==
    [address |-> "aa:bb",
     advertisement |-> [localName |-> {"sps"}, serviceDat |-> undefined,
                        serviceUuids |-> <<"fff0">>, manufacturerData |-> {f}]]

\* The frame of the reference advertisement.
Frame0 == DeviceFrame(1800, 5000, 0, 80)

\* Frame0 with bytes 5-6 holding the checksum the accessory computes.
Frames2 ==
    WithBytes56(Frame0, CRC16_0x18005(Frame0, 0, CrcLengthArg, TRUE, TRUE, 65535, 0))

\* The peripherals the radio reports: the sensor with each frame, and the
\* advertisements that differ from the sensor's in one field.
Peripherals ==
    {Sensor(f) : f \in Frames}
    \cup {p \in AllPeripherals :
            \/ p = [Sensor(Frame0) EXCEPT !.address = p.address]
            \/ p = [Sensor(Frame0) EXCEPT !.advertisement.localName = p.advertisement.localName]
            \/ p = [Sensor(Frame0) EXCEPT !.advertisement.serviceDat = p.advertisement.serviceDat]
            \/ p = [Sensor(Frame0) EXCEPT !.advertisement.serviceUuids = p.advertisement.serviceUuids]
            \/ p = [Sensor(Frame0) EXCEPT !.advertisement.manufacturerData = undefined]}

\* A configuration with the given model, mac_address and update_interval,
\* the other keys absent.
Config(model, mac_address, update_interval) ==
    [model                  |-> model,
     sensor                 |-> undefined,
     mac_address            |-> mac_address,
     update_interval        |-> update_interval,
     offset_int_temperature |-> undefined,
     offset_ext_temperature |-> undefined,
     offset_int_humidity    |-> undefined]

\* Two known variants (one of them dual-view), the sentinel and an absent
\* model, each with and without an address and an interval.
Configs ==
    { Config({"IBS-TH1"}, {"AA:BB"}, undefined),
      Config({"IBS-TH1"}, undefined, {20}),
      Config({"IBS-TH1-Plus"}, {"AA:BB"}, {20}),
      Config({"IBS-TH1-Plus"}, undefined, undefined),
      Config({"not in list - try it anyway"}, {"AA:BB"}, undefined),
      Config({"not in list - try it anyway"}, undefined, {20}),
      Config(undefined, {"AA:BB"}, {20}),
      Config(undefined, undefined, undefined) }

NobleStates == {"poweredOn", "poweredOff"}

-----------------------------------------------------------------------------
(* Specification *)

\* The machine at the entry of an invocation made by `by` (a request, the
\* discover listener, a timer): the trace starts with the entry and the state
\* the scheduler is in.
Machine(by) ==
    [self |-> self, timers |-> timers, noble |-> noble,
     trace |-> <<Ev("enter", by, NoFn, {self.eState})>>, nCalls |-> nCalls, thrown |-> ""]

Becomes(m) ==
    /\ self' = m.self
    /\ timers' = m.timers
    /\ noble' = m.noble
    /\ trace' = m.trace
    /\ nCalls' = m.nCalls
    /\ thrown' = m.thrown

Is(m) ==
    /\ self = m.self
    /\ timers = m.timers
    /\ noble = m.noble
    /\ trace = m.trace
    /\ nCalls = m.nCalls
    /\ thrown = m.thrown

\* The state after `new cInkbirdBtTHSensorAccessory(cLog, dConfig)`: the
\* constructor ends with RunStatemachine(false, false, undefined) (line 165).
InitWith(configs) ==
    \E dConfig \in configs :
        /\ Is(RunStatemachine(
                  Emit(NewMachine(dConfig), Ev("enter", "constructor", NoFn, {ESTATES.NOT_READY})),
                  FALSE, FALSE, NoPeripheral))
        /\ nextCb = 0
        /\ fired = 0
        /\ peer = undefined

Init == InitWith(Configs)

\* Variant of Get: a continuation that waits in the slot is kept, the new one
\* is not stored.
GetKeepingFirst(kind) ==
    /\ nextCb < MaxReq
    /\ nextCb' = nextCb + 1
    /\ fired' = 0
    /\ Becomes(RunStatemachine(
           [Machine("get") EXCEPT !.self.fCallback[kind] =
                                      IF @ = undefined THEN {Caller(nextCb + 1)} ELSE @,
                           !.self.bQueryStarted = TRUE],
           FALSE, FALSE, NoPeripheral))
    /\ UNCHANGED peer

\* get<Kind>(fCallback), lines 175-185, 209-219, 243-253, 277-287, 311-321.
Get(kind) ==
    /\ nextCb < MaxReq
    /\ nextCb' = nextCb + 1
    /\ fired' = 0
    /\ Becomes(RunStatemachine(
           [Machine("get") EXCEPT !.self.fCallback[kind] = {Caller(nextCb + 1)},
                           !.self.bQueryStarted = TRUE],
           FALSE, FALSE, NoPeripheral))
    /\ UNCHANGED peer

\* noble 'stateChange' listener, line 155.
StateChange(state) ==
    /\ self' = [self EXCEPT !.bHWReady = (state = "poweredOn")]
    /\ trace' = <<>>
    /\ thrown' = ""
    /\ fired' = 0
    /\ UNCHANGED <<timers, noble, nCalls, nextCb, peer>>

\* noble 'discover' listener, line 156. The radio is shared: it reports
\* devices whoever started the scan, in every state of this scheduler.
Discover(cPeripheral) ==
    /\ Becomes(RunStatemachine(Machine("discover"), FALSE, TRUE, cPeripheral))
    /\ fired' = 0
    /\ UNCHANGED <<nextCb, peer>>

\* A live interval timer fires: RunStatemachine(true, false, undefined).
TimerFires(id) ==
    /\ \E t \in timers.live : t.id = id
    /\ Becomes(RunStatemachine(Machine("timer"), TRUE, FALSE, NoPeripheral))
    /\ fired' = id
    /\ UNCHANGED <<nextCb, peer>>

TimerIds == 1..3

\* The five get<Kind> handlers are the same code up to the name of the slot.
\* Requests are made for the temperature (resolved by the sensor selection),
\* the humidity (a field handed on as it is; so are the sensor flag and the
\* battery level) and the low-battery flag (computed at delivery); the fair
\* and the two-accessory specifications draw requests of all five kinds.
RequestKinds == {"Temperature", "Humidity", "LowBattery"}

Next ==
    \/ \E kind \in RequestKinds : Get(kind)
    \/ \E state \in NobleStates : StateChange(state)
    \/ \E cPeripheral \in Peripherals : Discover(cPeripheral)
    \/ \E id \in TimerIds : TimerFires(id)

Spec == Init /\ [][Next]_vars

\* The steps TimerFires(id), told by the variable fired: only they set it to
\* id, and two successive firings are of different timers (FreshTimer), so
\* each of them changes it. Enabled exactly when timer id is live.
TimerFired(id) ==
    /\ \E t \in timers.live : t.id = id
    /\ fired' = id

\* get<Kind>(fCallback) in the behaviours of the fair specification.
LiveGet(kind) ==
    /\ nextCb < MaxLiveReq
    /\ Get(kind)

LiveNext ==
    \/ \E kind \in KindSet : LiveGet(kind)
    \/ \E state \in NobleStates : StateChange(state)
    \/ \E cPeripheral \in Peripherals : Discover(cPeripheral)
    \/ \E id \in TimerIds : TimerFires(id)

\* An interval timer that stays armed fires.
LiveSpec ==
    Init /\ [][LiveNext]_vars /\ \A id \in TimerIds : WF_fired(TimerFired(id))

-----------------------------------------------------------------------------
(* Two accessories in one process *)

\* Each accessory object registers its own listeners with the one noble
\* object (lines 155-156) and commands the same radio (lines 560, 593, 638);
\* timers come from the one timer facility. `self` is the object constructed
\* first, `peer` the second. A machine with the field `other` carries the
\* object that is not running.

\* Number of poll requests issued to the two accessories together.
MaxPairReq == 1

PairMachine(by) ==
    [self |-> self, other |-> Val(peer), timers |-> timers, noble |-> noble,
     trace |-> <<Ev("enter", by, NoFn, {self.eState})>>, nCalls |-> nCalls, thrown |-> ""]

\* The machine on which the other object runs.
Swap(m) == [m EXCEPT !.self = m.other, !.other = m.self]

\* The other object enters an invocation made by `by`.
EnterOther(m, by) == Emit(Swap(m), Ev("enter", by, NoFn, {m.other.eState}))

PairBecomes(m) ==
    /\ Becomes(m)
    /\ peer' = {m.other}

\* Two sensors with their addresses, with and without an update interval.
PairConfigs ==
    { <<Config({"IBS-TH1"}, {"AA:BB"}, undefined), Config({"IBS-TH1"}, {"CC:DD"}, undefined)>>,
      <<Config({"IBS-TH1"}, {"AA:BB"}, {20}), Config({"IBS-TH1-Plus"}, {"CC:DD"}, undefined)>> }

\* The advertisements of the two sensors: with the frame a sensor sends, with
\* the frame whose bytes 5-6 hold the checksum the accessory computes, and
\* without manufacturer data.
PairPeripherals ==
    {p \in AllPeripherals :
        \E f \in {{Frame0}, {Frames2}, undefined} :
            p = [Sensor(Frame0) EXCEPT !.address = p.address,
                                       !.advertisement.manufacturerData = f]}

\* The second constructor runs on the timers and the radio the first one left.
ConstructOther(m, dConfig) ==
    Swap(RunStatemachine(
             Emit([self |-> Construct(dConfig), other |-> m.self, timers |-> m.timers,
                   noble |-> m.noble, trace |-> m.trace, nCalls |-> m.nCalls, thrown |-> ""],
                  Ev("enter", "constructor", NoFn, {ESTATES.NOT_READY})),
             FALSE, FALSE, NoPeripheral))

\* The state after both accessories are constructed.
PairInit ==
    \E c \in PairConfigs :
        /\ LET m == ConstructOther(
                        RunStatemachine(
                            Emit(NewMachine(c[1]), Ev("enter", "constructor", NoFn, {ESTATES.NOT_READY})),
                            FALSE, FALSE, NoPeripheral),
                        c[2])
           IN  Is(m) /\ peer = {m.other}
        /\ nextCb = 0
        /\ fired = 0

\* get<Kind>(fCallback) of the first and of the second accessory.
PairGet(kind) ==
    /\ nextCb < MaxPairReq
    /\ nextCb' = nextCb + 1
    /\ fired' = 0
    /\ PairBecomes(RunStatemachine(
           [PairMachine("get") EXCEPT !.self.fCallback[kind] = {Caller(nextCb + 1)},
                                   !.self.bQueryStarted = TRUE],
           FALSE, FALSE, NoPeripheral))

PairGetOther(kind) ==
    /\ nextCb < MaxPairReq
    /\ nextCb' = nextCb + 1
    /\ fired' = 0
    /\ PairBecomes(Swap(RunStatemachine(
           [EnterOther([PairMachine("get") EXCEPT !.trace = <<>>], "get")
               EXCEPT !.self.fCallback[kind] = {Caller(nextCb + 1)},
                      !.self.bQueryStarted = TRUE],
           FALSE, FALSE, NoPeripheral)))

\* noble emits 'stateChange': the listeners of both objects run (line 155).
PairStateChange(state) ==
    /\ self' = [self EXCEPT !.bHWReady = (state = "poweredOn")]
    /\ peer' = {[Val(peer) EXCEPT !.bHWReady = (state = "poweredOn")]}
    /\ trace' = <<>>
    /\ thrown' = ""
    /\ fired' = 0
    /\ UNCHANGED <<timers, noble, nCalls, nextCb>>

\* noble emits 'discover': the listeners run in the order they were
\* registered (line 156); an error thrown by the first leaves emit, and the
\* second is not called.
DiscoverOther(m, cPeripheral) ==
    IF m.thrown # "" THEN m
    ELSE Swap(RunStatemachine(EnterOther(m, "discover"), FALSE, TRUE, cPeripheral))

PairDiscover(cPeripheral) ==
    /\ PairBecomes(DiscoverOther(
           RunStatemachine(PairMachine("discover"), FALSE, TRUE, cPeripheral), cPeripheral))
    /\ fired' = 0
    /\ UNCHANGED nextCb

\* A live interval timer fires in the object that armed it.
PairTimerFires(id) ==
    /\ \E t \in timers.live : t.id = id
    /\ self.iTimeoutId = {id}
    /\ PairBecomes(RunStatemachine(PairMachine("timer"), TRUE, FALSE, NoPeripheral))
    /\ fired' = id
    /\ UNCHANGED nextCb

PairTimerFiresOther(id) ==
    /\ \E t \in timers.live : t.id = id
    /\ Val(peer).iTimeoutId = {id}
    /\ PairBecomes(Swap(RunStatemachine(
           EnterOther([PairMachine("timer") EXCEPT !.trace = <<>>], "timer"),
           TRUE, FALSE, NoPeripheral)))
    /\ fired' = id
    /\ UNCHANGED nextCb

PairNext ==
    \/ \E kind \in KindSet : PairGet(kind)
    \/ \E kind \in KindSet : PairGetOther(kind)
    \/ \E state \in NobleStates : PairStateChange(state)
    \/ \E cPeripheral \in PairPeripherals : PairDiscover(cPeripheral)
    \/ \E id \in TimerIds : PairTimerFires(id)
    \/ \E id \in TimerIds : PairTimerFiresOther(id)

PairSpec == PairInit /\ [][PairNext]_vars

-----------------------------------------------------------------------------
(* Cyclic operation: an update interval and a sensor selection are          *)
(* configured                                                              *)

\* Number of poll requests issued in one behaviour of the cyclic
\* specification.
MaxCycleReq == 1

\* A configuration with the given model and sensor selection and the offsets
\* o = <<internal temperature, external temperature, humidity>>, without an
\* address and with an update interval of 20 s.
CycleConfig(model, sensor, o) ==
    [Config({model}, undefined, {20}) EXCEPT
        !.sensor = sensor,
        !.offset_int_temperature = {o[1]},
        !.offset_ext_temperature = {o[2]},
        !.offset_int_humidity = {o[3]}]

\* The dual-view variant with every sensor selection, and a single-view
\* variant and the sentinel with a selection configured.
CycleConfigs ==
    {CycleConfig("IBS-TH1-Plus", s, <<0, 0, 0>>) :
        s \in {undefined, {"auto"}, {"internal"}, {"external"}}}
    \cup {CycleConfig("IBS-TH1", {"external"}, <<0, 0, 0>>),
          CycleConfig("not in list - try it anyway", {"internal"}, <<0, 0, 0>>)}

\* The sensor with the frames of the model and with a frame of the external
\* probe whose bytes 5-6 hold the checksum the accessory computes.
CyclePeripherals ==
    {Sensor(f) : f \in Frames \cup {CheckedFrame(2250, 5000, 1, 80)}}

CycleInit == InitWith(CycleConfigs)

\* get<Kind>(fCallback) for the kinds the sensor selection bears on.
CycleGet(kind) ==
    /\ nextCb < MaxCycleReq
    /\ Get(kind)

CycleNext ==
    \/ \E kind \in {"Temperature", "ExtSensor"} : CycleGet(kind)
    \/ \E state \in NobleStates : StateChange(state)
    \/ \E cPeripheral \in CyclePeripherals : Discover(cPeripheral)
    \/ \E id \in TimerIds : TimerFires(id)

CycleSpec == CycleInit /\ [][CycleNext]_vars

-----------------------------------------------------------------------------
(* The decoder on its own: parseStatus applied to every frame *)

Offsets == {<<0, 0, 0>>, <<-500, -501, -500>>, <<500, 501, 500>>}

\* A single-view variant with every offset, the dual-view variant with every
\* offset and sensor selection, and the sentinel.
DecodeConfigs ==
    {CycleConfig("IBS-TH1", undefined, o) : o \in Offsets}
    \cup {CycleConfig("IBS-TH1-Plus", s, o) :
             s \in {undefined, {"internal"}, {"external"}}, o \in Offsets}
    \cup {CycleConfig("not in list - try it anyway", undefined, o) : o \in Offsets}

DecodeInit == InitWith(DecodeConfigs)

\* Lines 618 and 642: the manufacturer data is stored and parseStatus runs on
\* it.
Decode(cRawStatus) ==
    /\ self' = parseStatus([self EXCEPT !.cRawStatus = {cRawStatus}]).s
    /\ thrown' = parseStatus([self EXCEPT !.cRawStatus = {cRawStatus}]).err
    /\ trace' = <<Ev("parseStatus", "", NoFn, {})>>
    /\ fired' = 0
    /\ UNCHANGED <<timers, noble, nCalls, nextCb, peer>>

DecodeNext == \E cRawStatus \in DecodeFrames : Decode(cRawStatus)

DecodeSpec == DecodeInit /\ [][DecodeNext]_vars

-----------------------------------------------------------------------------
(* Update intervals: every value of update_interval around the two minima  *)

\* Number of poll requests issued in one behaviour of the interval
\* specification.
MaxIntervalReq == 1

\* Values of the configuration key update_interval, in seconds.
Intervals == {0, 3, 5, 7, 9, 10, 11, 20}

\* A single-view variant without and with each update interval.
IntervalConfigs ==
    {Config({"IBS-TH1"}, undefined, i) : i \in {undefined} \cup {{n} : n \in Intervals}}

\* The sensor with a frame that fails and one that passes the CRC comparison.
IntervalPeripherals == {Sensor(Frame0), Sensor(Frames2)}

IntervalInit == InitWith(IntervalConfigs)

\* getTemperature(fCallback) in the behaviours of the interval specification.
IntervalGet(kind) ==
    /\ nextCb < MaxIntervalReq
    /\ Get(kind)

IntervalNext ==
    \/ \E kind \in {"Temperature"} : IntervalGet(kind)
    \/ \E state \in NobleStates : StateChange(state)
    \/ \E cPeripheral \in IntervalPeripherals : Discover(cPeripheral)
    \/ \E id \in TimerIds : TimerFires(id)

IntervalSpec == IntervalInit /\ [][IntervalNext]_vars

-----------------------------------------------------------------------------
(* Requests of all five kinds *)

\* Number of poll requests issued in one behaviour of the five-kind
\* specification.
MaxFlushReq == 2

\* A single-view variant without an update interval and the dual-view variant
\* with one.
FlushConfigs ==
    { Config({"IBS-TH1"}, undefined, undefined),
      Config({"IBS-TH1-Plus"}, undefined, {20}) }

\* The sensor with a frame that fails and one that passes the CRC comparison,
\* and with the frame of the external probe (battery level 5 %).
FlushPeripherals ==
    {Sensor(Frame0), Sensor(Frames2), Sensor(WithBytes56(DeviceFrame(2250, 4000, 1, 5), 2100))}

FlushInit == InitWith(FlushConfigs)

\* get<Kind>(fCallback) for each of the five kinds.
FlushGet(kind) ==
    /\ nextCb < MaxFlushReq
    /\ Get(kind)

FlushNext ==
    \/ \E kind \in KindSet : FlushGet(kind)
    \/ \E state \in NobleStates : StateChange(state)
    \/ \E cPeripheral \in FlushPeripherals : Discover(cPeripheral)
    \/ \E id \in TimerIds : TimerFires(id)

FlushSpec == FlushInit /\ [][FlushNext]_vars

-----------------------------------------------------------------------------
(* Properties *)

\* Entries of the trace of the last invocation.
Events(op) == {i \in DOMAIN trace : trace[i].op = op}

\* The last invocation was made by `by` while the scheduler was in eState.
Entered(by, eState) ==
    /\ trace # <<>>
    /\ trace[1].op = "enter"
    /\ trace[1].kind = by
    /\ trace[1].val = {eState}

\* Continuation id is held in a slot.
Held(id) == \E k \in KindSet : self.fCallback[k] = {Caller(id)}

\* C1, as stated: every continuation handed to a get<Kind> is invoked exactly
\* once. At any moment a continuation still held in its slot has not been
\* invoked, and one that is no longer held has been invoked once.
C1_InvokedExactlyOnce ==
    \A id \in 1..nextCb : nCalls[id] = (IF Held(id) THEN 0 ELSE 1)

\* The last invocation left SCANNING on the discovery timeout with no
\* accepted device.
TimedOutEmpty ==
    /\ Entered("timer", ESTATES.SCANNING)
    /\ Events("parseStatus") # {}
    /\ self.cRawStatus = undefined

\* C2, as stated: when the discovery timeout fires in Scanning with no
\* accepted device, every continuation serviced, of every kind, receives
\* undefined and never a concrete value.
C2_TimeoutGivesNoValue ==
    TimedOutEmpty => \A i \in Events("callback") : trace[i].val = undefined

\* The last invocation decoded a frame of at least 8 bytes for a known
\* variant, not through the dual-view branch, and bytes 5-6 differ from the
\* checksum computed.
CrcMismatch ==
    /\ Events("parseStatus") # {}
    /\ self.cRawStatus # undefined
    /\ self.dSensorCfg # undefined
    /\ ~IsSentinel(self.dSensorCfg)
    /\ Len(Val(self.cRawStatus)) >= 8
    /\ ~(self.bDualViewSensor /\ Val(self.cRawStatus)[5] = 1)
    /\ self.iCRC # {readUIntLE(Val(self.cRawStatus), 5, 2)}

\* C3, as stated: on a CRC mismatch the frame is discarded entirely: no field
\* of the reading is populated and every continuation serviced receives
\* undefined.
C3_CrcMismatchDiscardsFrame ==
    CrcMismatch =>
        /\ self.fTemperature = undefined
        /\ self.fIntHumidity = undefined
        /\ self.bExternalSensor = undefined
        /\ self.fBatteryLevel = undefined
        /\ \A i \in Events("callback") : trace[i].val = undefined

\* C4, as stated: a value delivered to a caller's continuation is fresh: the
\* invocation that delivers it has decoded a scan result before, so the value
\* comes from a scan cycle completed after the request was made.
C4_DeliveredValueIsFresh ==
    \A i \in Events("callback") : \E j \in Events("parseStatus") : j < i

\* C4, amended: a delivered value is the reading the object holds; it was
\* decoded earlier in the delivering invocation, except for a request that
\* arrives in READY4ANSWER: that request alone is answered at once from the
\* reading decoded before it was made, and with the radio on the same
\* invocation starts a new scan.
C4_FreshExceptInReadingReady ==
    \A i \in Events("callback") :
        /\ trace[i].val = AnswerValue(self, trace[i].kind)
        /\ \/ \E j \in Events("parseStatus") : j < i
           \/ /\ Entered("get", ESTATES.READY4ANSWER)
              /\ trace[i].cb = Caller(nextCb)
              /\ Events("callback") = {i}
              /\ Events("startScanning") # {}
              /\ self.eState = ESTATES.SCANNING

\* A request made in READY4ANSWER was answered with a cached, defined value.
C4_CachedAnswerGiven ==
    /\ Entered("get", ESTATES.READY4ANSWER)
    /\ Events("parseStatus") = {}
    /\ \E i \in Events("callback") : trace[i].val # undefined /\ trace[i].kind = "Humidity"

\* C5, as stated: after an invocation made while the radio is off no
\* caller's continuation is left waiting: each has been resolved.
C5_RadioOffResolvesRequests ==
    (~self.bHWReady /\ trace # <<>>) =>
        \A k \in KindSet : self.fCallback[k] = undefined \/ Val(self.fCallback[k]).fn # "caller"

\* C5, amended: an invocation made while the radio is off ends in NOT_READY
\* with the 5 s retry timer armed, invokes no continuation and keeps every
\* filled slot filled: requests are retained unanswered.
C5_RadioOffRetainsRequests ==
    [][(~self'.bHWReady /\ trace' # <<>>) =>
          /\ self'.eState = ESTATES.NOT_READY
          /\ nCalls' = nCalls
          /\ \A i \in DOMAIN trace' : trace'[i].op \notin {"callback", "updateCharacteristic"}
          /\ \A k \in KindSet : self.fCallback[k] # undefined => self'.fCallback[k] # undefined
          /\ self'.iTimeoutId # undefined
          /\ timers'.live = {[id |-> Val(self'.iTimeoutId), ms |-> RetryMs]}]_vars

\* The radio went off during SCANNING, the discovery timer fired, and the
\* request made before is still waiting.
C5_RequestWaitsWhileOff ==
    /\ Entered("timer", ESTATES.SCANNING)
    /\ ~self.bHWReady
    /\ self.eState = ESTATES.NOT_READY
    /\ Held(1)
    /\ nCalls[1] = 0

\* C6, as stated: with a model name that is not in DDMODELS, a peripheral
\* discovered in SCANNING whose address matches (any peripheral when no
\* address is configured) and that carries manufacturer data of at least 8
\* bytes is accepted and decoded: the scan ends in READY4ANSWER with its data.
C6_UnknownModelAccepts ==
    [][\A cPeripheral \in Peripherals :
          ( /\ self.dSensorCfg = undefined
            /\ self.eState = ESTATES.SCANNING
            /\ (cPeripheral.address = self.strMAC \/ self.strMAC = "")
            /\ cPeripheral.advertisement.manufacturerData # undefined
            /\ Len(Val(cPeripheral.advertisement.manufacturerData)) >= 8
            /\ Discover(cPeripheral) )
          => /\ self'.cRawStatus = cPeripheral.advertisement.manufacturerData
             /\ self'.eState = ESTATES.READY4ANSWER]_vars

\* C7, as stated: a discover event handled in SCANNING with a known variant
\* lets no error escape, and if the scheduler is still in SCANNING afterwards
\* the discovery timer is armed.
C7_DiscoverNeverThrows ==
    ( /\ Entered("discover", ESTATES.SCANNING)
      /\ self.dSensorCfg # undefined
      /\ ~IsSentinel(self.dSensorCfg) )
    => /\ thrown = ""
       /\ self.eState = ESTATES.SCANNING =>
              /\ self.iTimeoutId # undefined
              /\ timers.live = {[id |-> Val(self.iTimeoutId), ms |-> DiscoveryMs]}

\* A caller's continuation waits in the slot of kind k.
CallerWaits(k) == self.fCallback[k] # undefined /\ Val(self.fCallback[k]).fn = "caller"

\* The scheduler is in SCANNING and no timer is armed: the state an error
\* thrown by parseStatus leaves behind (line 642, after lines 638-639).
ScanAbandoned == self.eState = ESTATES.SCANNING /\ self.iTimeoutId = undefined

C10_StopOnlyOwnScan ==
    \A i \in Events("stopScanning") :
        trace[i].val = {ESTATES.SCANNING} /\ trace[i].kind = "scanning"

\* C10, amended: stopScanning is commanded by a scheduler in SCANNING, and
\* besides by the hardware-not-ready reset in STATUS_INVALID or READY4ANSWER,
\* where no scan of its own is running; with the radio on it is commanded in
\* SCANNING only.
C10_StopOnLeavingScanOrRadioOff ==
    \A i \in Events("stopScanning") :
        \/ trace[i].val = {ESTATES.SCANNING}
        \/ /\ ~self.bHWReady
           /\ self.eState = ESTATES.NOT_READY
           /\ trace[i].val \in {{ESTATES.STATUS_INVALID}, {ESTATES.READY4ANSWER}}
           /\ trace[i].kind = "idle"
           /\ Events("stopScanning") = {i}

\* The reset commanded stopScanning from READY4ANSWER.
C10_StoppedFromReadingReady ==
    \E i \in Events("stopScanning") :
        trace[i].val = {ESTATES.READY4ANSWER} /\ trace[i].kind = "idle"

\* C11, as stated: with two accessories on the one radio and the radio
\* powered on, the radio is scanning whenever at least one of them is in
\* SCANNING.
C11_ScanKeptForWaitingInstance ==
    (self.bHWReady /\ (self.eState = ESTATES.SCANNING \/ Val(peer).eState = ESTATES.SCANNING))
        => noble.scanning

\* C12: when an address is configured, every peripheral found (line 619) has
\* that address, for every variant; and a frame that parseStatus decodes was
\* stored from a peripheral found in the same invocation, of the configured
\* address when one is configured.
C12_OnlyConfiguredAddressAccepted ==
    /\ \A i \in Events("found") : self.strMAC # "" => trace[i].kind = self.strMAC
    /\ \A j \in Events("parseStatus") :
           self.cRawStatus # undefined =>
               \E i \in Events("found") :
                   /\ i < j
                   /\ Val(trace[i].val).manufacturerData = self.cRawStatus
                   /\ self.strMAC # "" => trace[i].kind = self.strMAC

\* With the sentinel and an address configured, a discover event in SCANNING
\* threw nothing and was not accepted: the sentinel accepts every peripheral
\* of the configured address that carries manufacturer data and throws on one
\* that carries none, so the peripheral's address differed.
C12_OtherAddressRejected ==
    /\ Entered("discover", ESTATES.SCANNING)
    /\ IsSentinel(self.dSensorCfg)
    /\ self.strMAC # ""
    /\ thrown = ""
    /\ Events("found") = {}
    /\ self.eState = ESTATES.SCANNING

\* The model is one of the known variants.
KnownVariant == self.dSensorCfg # undefined /\ ~IsSentinel(self.dSensorCfg)

C14_SentinelAcceptsAndDecodesAll ==
    ( /\ IsSentinel(self.dSensorCfg)
      /\ Entered("discover", ESTATES.SCANNING)
      /\ (self.strMAC = "" \/ Events("found") # {}) )
    => /\ thrown = ""
       /\ self.eState = ESTATES.READY4ANSWER
       /\ self.cRawStatus # undefined
       /\ Events("parseStatus") # {}
       /\ self.fTemperature # undefined

\* The CRC-16/MODBUS value (polynomial 0x8005, seed 0xFFFF, input and output
\* reflected, final XOR 0) of the five bytes at offsets 0..4 of each frame of
\* the model.
ModbusTable ==
    {<<f, CRC16_0x18005(f, 0, 5, TRUE, TRUE, 65535, 0)>> : f \in {g \in Frames : Len(g) >= 8}}

ModbusOfStatus(cRawStatus) == (CHOOSE p \in ModbusTable : p[1] = cRawStatus)[2]

\* The last invocation decoded a frame for a known variant, not through the
\* dual-view branch, and the decoder accepted it: a temperature is stored.
SingleViewAccepted ==
    /\ Events("parseStatus") # {}
    /\ KnownVariant
    /\ self.cRawStatus # undefined
    /\ ~(self.bDualViewSensor /\ Val(self.cRawStatus)[5] = 1)
    /\ (self.fIntTemperature # undefined \/ self.fExtTemperature # undefined)

DualViewDecoded ==
    /\ Events("parseStatus") # {}
    /\ self.bDualViewSensor
    /\ self.cRawStatus # undefined
    /\ Val(self.cRawStatus)[5] = 1

\* raw + offset in hundredths of a degree, not below -273.15 degrees.
Celsius(raw, offset) == IF raw + offset < -27315 THEN -27315 ELSE raw + offset

\* C16, as stated: for a dual-view variant and a frame whose sensor flag reads
\* external, the internal temperature is taken from bytes 0-1 and the
\* external temperature from bytes 5-6.
C16_InternalFromBytes01 ==
    DualViewDecoded =>
        /\ self.fIntTemperature =
               {Celsius(readIntLE(Val(self.cRawStatus), 0, 2), self.fOffsetIntTemperature)}
        /\ self.fExtTemperature =
               {Celsius(readIntLE(Val(self.cRawStatus), 5, 2), self.fOffsetExtTemperature)}

\* C16, amended: for a dual-view variant and a frame whose sensor flag reads
\* external, the external temperature is taken from bytes 0-1 and the
\* internal temperature from bytes 5-6, each with its own offset.
C16_ExternalFromBytes01 ==
    DualViewDecoded =>
        /\ self.fExtTemperature =
               {Celsius(readIntLE(Val(self.cRawStatus), 0, 2), self.fOffsetExtTemperature)}
        /\ self.fIntTemperature =
               {Celsius(readIntLE(Val(self.cRawStatus), 5, 2), self.fOffsetIntTemperature)}

\* A dual-view frame with 22.50 degrees in bytes 0-1 and -268.14 degrees in
\* bytes 5-6 was decoded with the offsets 5.00 and 5.01: external 27.51,
\* internal -263.14.
C16_DualViewFrameDecoded ==
    /\ DualViewDecoded
    /\ readIntLE(Val(self.cRawStatus), 0, 2) = 2250
    /\ readIntLE(Val(self.cRawStatus), 5, 2) = -26814
    /\ self.fOffsetIntTemperature = 500
    /\ self.fOffsetExtTemperature = 501
    /\ self.fExtTemperature = {2751}
    /\ self.fIntTemperature = {-26314}

\* Entries of the trace that hand a value of the kind to a continuation, a
\* caller's or the update pusher.
Delivered(kind) ==
    {i \in DOMAIN trace :
        trace[i].op \in {"callback", "updateCharacteristic"} /\ trace[i].kind = kind}

\* The last invocation ended a scan cycle of a dual-view variant in which a
\* frame was accepted.
DualViewCycleDone ==
    /\ self.bDualViewSensor
    /\ Events("found") # {}
    /\ Events("parseStatus") # {}
    /\ self.cRawStatus # undefined

\* The two channels of the accepted frame of a dual-view variant: with the
\* flag byte external, bytes 0-1 are the external and bytes 5-6 the internal
\* temperature; with the flag byte internal, bytes 0-1 are the internal
\* temperature and there is no external one.
InternalChannel ==
    IF Val(self.cRawStatus)[5] = 1
    THEN {Celsius(readIntLE(Val(self.cRawStatus), 5, 2), self.fOffsetIntTemperature)}
    ELSE {Celsius(readIntLE(Val(self.cRawStatus), 0, 2), self.fOffsetIntTemperature)}

ExternalChannel ==
    IF Val(self.cRawStatus)[5] = 1
    THEN {Celsius(readIntLE(Val(self.cRawStatus), 0, 2), self.fOffsetExtTemperature)}
    ELSE undefined

\* What the sensor selection delivers: the flag and the temperature.
SelectedFlag ==
    CASE self.strSensor = "internal" -> {FALSE}
      [] self.strSensor = "external" -> {TRUE}
      [] OTHER                       -> {Val(self.cRawStatus)[5] = 1}

SelectedChannel ==
    CASE self.strSensor = "internal" -> InternalChannel
      [] self.strSensor = "external" -> ExternalChannel
      [] OTHER -> IF Val(self.cRawStatus)[5] = 1 THEN ExternalChannel ELSE InternalChannel

\* The accepted frame went through the CRC branch and failed the comparison.
CrcFailed ==
    /\ Val(self.cRawStatus)[5] # 1
    /\ CrcOfStatus(Val(self.cRawStatus)) # readUIntLE(Val(self.cRawStatus), 5, 2)

\* C17, as stated: for a dual-view variant, after every scan cycle in which a
\* frame was accepted the delivered sensor flag is false with the selection
\* internal and true with external, and the delivered temperature is the
\* internal resp. external temperature decoded (with auto the one the flag
\* byte names), whatever the flag byte and the CRC outcome.
C17_SelectionAppliedWhateverCrc ==
    DualViewCycleDone =>
        /\ \A i \in Delivered("ExtSensor") :
               self.strSensor # "auto" => trace[i].val = SelectedFlag
        /\ \A i \in Delivered("Temperature") :
               trace[i].val =
                   CASE self.strSensor = "internal" -> self.fIntTemperature
                     [] self.strSensor = "external" -> self.fExtTemperature
                     [] OTHER -> IF Val(self.cRawStatus)[5] = 1
                                 THEN self.fExtTemperature ELSE self.fIntTemperature

\* C17, amended: the same for a frame decoded through the dual-view branch or
\* passing the CRC comparison, and with auto the delivered flag is the flag
\* byte; after a CRC error the selection is not applied: whatever it is, the
\* delivered flag is the frame's flag byte (internal) and no temperature is
\* delivered.
C17_SelectionAppliedUnlessCrcError ==
    DualViewCycleDone =>
        /\ Delivered("ExtSensor") # {} /\ Delivered("Temperature") # {}
        /\ \A i \in Delivered("ExtSensor") :
               trace[i].val = IF CrcFailed THEN {FALSE} ELSE SelectedFlag
        /\ \A i \in Delivered("Temperature") :
               trace[i].val = IF CrcFailed THEN undefined ELSE SelectedChannel

\* With the selection internal, a frame flagged external was accepted: the
\* flag delivered is false and the temperature delivered is that of bytes
\* 5-6, 21.00 degrees.
C17_InternalForcedOnExternalFrame ==
    /\ DualViewCycleDone
    /\ self.strSensor = "internal"
    /\ Val(self.cRawStatus)[5] = 1
    /\ \E i \in Delivered("ExtSensor") : trace[i].val = {FALSE}
    /\ \E i \in Delivered("Temperature") : trace[i].val = {2100}

\* The frame held is that of a known variant, was not decoded through the
\* dual-view branch, and its bytes 5-6 differ from the checksum of line 483.
HeldFrameFailedCrc ==
    /\ KnownVariant
    /\ self.cRawStatus # undefined
    /\ ~(self.bDualViewSensor /\ Val(self.cRawStatus)[5] = 1)
    /\ CrcOfStatus(Val(self.cRawStatus)) # readUIntLE(Val(self.cRawStatus), 5, 2)

\* C18: in every reachable state, if the frame decoded last failed the CRC
\* comparison, the internal, the external and the visible temperature are
\* absent; and a frame decoded through the dual-view branch has both
\* temperatures decoded, whatever its bytes 5-6.
C18_NoTemperatureAfterCrcError ==
    /\ HeldFrameFailedCrc =>
           /\ self.fIntTemperature = undefined
           /\ self.fExtTemperature = undefined
           /\ self.fTemperature = undefined
    /\ (self.bDualViewSensor /\ self.cRawStatus # undefined /\ Val(self.cRawStatus)[5] = 1) =>
           /\ self.fIntTemperature = InternalChannel
           /\ self.fExtTemperature = ExternalChannel
           /\ self.fTemperature \in {InternalChannel, ExternalChannel}

\* A frame failed the CRC comparison in the last invocation: its humidity is
\* held, no temperature is.
C18_CrcErrorDecoded ==
    /\ HeldFrameFailedCrc
    /\ Events("parseStatus") # {}
    /\ self.fIntHumidity = {5000}
    /\ self.fTemperature = undefined

\* A value decoded from raw + offset (hundredths) with the floor lo: never
\* below lo, exactly lo when raw + offset is below it, raw + offset otherwise.
FloorLaw(field, raw, offset, lo) ==
    \A v \in field :
        /\ v >= lo
        /\ (raw + offset < lo) => v = lo
        /\ (raw + offset >= lo) => v = raw + offset

\* Bytes 0-1 and 5-6 of the frame held, as signed 16-bit values.
Raw01 == readIntLE(Val(self.cRawStatus), 0, 2)

Raw56 == readIntLE(Val(self.cRawStatus), 5, 2)

\* C19: every decoded temperature - internal, external and visible - is not
\* below -273.15 degrees: it is exactly -273.15 when raw + offset is below
\* -27315 hundredths, and raw + offset hundredths otherwise, for every raw
\* 16-bit value and offset.
C19_TemperatureFloor ==
    self.cRawStatus # undefined =>
        /\ FloorLaw(self.fExtTemperature, Raw01, self.fOffsetExtTemperature, -27315)
        /\ FloorLaw(self.fIntTemperature,
                    IF self.bDualViewSensor /\ Val(self.cRawStatus)[5] = 1 THEN Raw56 ELSE Raw01,
                    self.fOffsetIntTemperature, -27315)
        /\ self.fTemperature \subseteq self.fIntTemperature \cup self.fExtTemperature
        /\ \A v \in self.fTemperature : v >= -27315

\* A frame whose bytes 0-1 plus the offset lie one hundredth below the floor
\* was decoded to exactly -273.15 degrees, with a non-zero offset.
C19_ClampedAtFloor ==
    /\ Events("parseStatus") # {}
    /\ self.cRawStatus # undefined
    /\ self.fOffsetIntTemperature # 0
    /\ Raw01 + self.fOffsetIntTemperature = -27316
    /\ self.fIntTemperature = {-27315}
    /\ self.fTemperature = {-27315}

\* Bytes 2-3 of the frame held, as an unsigned 16-bit value.
Raw23 == readUIntLE(Val(self.cRawStatus), 2, 2)

\* C20: the decoded humidity is within 0..100 %: 0 when raw + offset is below
\* 0, 100 when it is above 10000 hundredths, and raw + offset hundredths
\* otherwise, for every raw 16-bit value and offset.
C20_HumidityWithinRange ==
    (self.cRawStatus # undefined /\ thrown = "") =>
        /\ self.fIntHumidity # undefined
        /\ \A v \in self.fIntHumidity :
               /\ v >= 0 /\ v <= 10000
               /\ (Raw23 + self.fOffsetIntHumidity < 0) => v = 0
               /\ (Raw23 + self.fOffsetIntHumidity > 10000) => v = 10000
               /\ (Raw23 + self.fOffsetIntHumidity \in 0..10000) =>
                      v = Raw23 + self.fOffsetIntHumidity

\* A frame whose bytes 2-3 plus the offset lie one hundredth above 100 % was
\* decoded to exactly 100 %, with a non-zero offset.
C20_ClampedAtHundred ==
    /\ Events("parseStatus") # {}
    /\ self.cRawStatus # undefined
    /\ self.fOffsetIntHumidity # 0
    /\ Raw23 + self.fOffsetIntHumidity = 10001
    /\ self.fIntHumidity = {10000}

\* The entries of the trace at which the scheduler has just entered eState.
Entries(eState) == {i \in Events("state") : trace[i].val = {eState}}

\* The timer armed right before entry i of the trace was made runs for sec
\* seconds.
ArmedBefore(i, sec) ==
    /\ i > 1
    /\ trace[i - 1].op = "setInterval"
    /\ trace[i - 1].val = {sec * 1000}

\* The one live timer is the one the scheduler holds and runs for sec seconds.
HoldsTimer(sec) ==
    /\ self.iTimeoutId # undefined
    /\ timers.live = {[id |-> Val(self.iTimeoutId), ms |-> sec * 1000]}

\* C21, as stated: on every entry to READY4ANSWER the validity timer is armed
\* for max(interval, 10) seconds, for every interval the scheduler holds, and
\* for 10 seconds when it holds none.
C21_ValidityAtLeastTen ==
    \A i \in Entries(ESTATES.READY4ANSWER) :
        ArmedBefore(i, IF self.iUpdateInt # undefined /\ Val(self.iUpdateInt) > 10
                       THEN Val(self.iUpdateInt) ELSE 10)

\* C21, amended: on every entry to READY4ANSWER the validity timer is armed
\* for the interval the scheduler holds - the configured update_interval
\* raised to at least 5 seconds, so 5 to 9 seconds as well - and for 10
\* seconds when no interval is configured; an invocation that ends in
\* READY4ANSWER leaves that timer as the only live one.
C21_ValidityIsHeldInterval ==
    /\ self.iUpdateInt # undefined => Val(self.iUpdateInt) >= MinUpdateInt
    /\ \A i \in Entries(ESTATES.READY4ANSWER) :
           ArmedBefore(i, IF self.iUpdateInt # undefined THEN Val(self.iUpdateInt) ELSE 10)
    /\ (trace # <<>> /\ self.eState = ESTATES.READY4ANSWER) =>
           HoldsTimer(IF self.iUpdateInt # undefined THEN Val(self.iUpdateInt) ELSE 10)

\* With update_interval 3 configured the scheduler entered READY4ANSWER and
\* the validity timer runs for 5 seconds.
C21_FiveSecondValidity ==
    /\ Entries(ESTATES.READY4ANSWER) # {}
    /\ self.eState = ESTATES.READY4ANSWER
    /\ self.iUpdateInt = {5}
    /\ HoldsTimer(5)

\* Entries of the trace at which a continuation or an update pusher is
\* invoked.
Serviced == Events("callback") \cup Events("updateCharacteristic")

Commands ==
    SelectSeq([i \in DOMAIN trace |-> trace[i].op],
              LAMBDA op : op \in {"startScanning", "stopScanning", "setInterval", "clearTimeout"})

\* The states the last invocation entered, in order.
Path ==
    LET entries == SelectSeq(trace, LAMBDA e : e.op = "state")
    IN  [i \in DOMAIN entries |-> Val(entries[i].val)]

C24_RadioOffIffNotReady ==
    trace # <<>> =>
        /\ (self.eState = ESTATES.NOT_READY) <=> ~self.bHWReady
        /\ ~self.bHWReady =>
               /\ HoldsTimer(5)
               /\ Path = <<>>
               /\ ~noble.scanning
               /\ trace[1].val # {ESTATES.NOT_READY} =>
                      /\ Len(trace) > 1
                      /\ trace[IF trace[2].op = "clearTimeout" THEN 3 ELSE 2].op = "stopScanning"
        /\ (self.bHWReady /\ trace[1].val = {ESTATES.NOT_READY}) =>
               /\ Path # <<>>
               /\ Path[1] = ESTATES.STATUS_INVALID

\* The radio went off during a scan; the discover event that followed was
\* taken to NOT_READY, the discovery timer gave way to the retry timer.
C24_ForcedOffFromScanning ==
    /\ Entered("discover", ESTATES.SCANNING)
    /\ ~self.bHWReady
    /\ self.eState = ESTATES.NOT_READY
    /\ Commands = <<"stopScanning", "clearTimeout", "setInterval">>
    /\ HoldsTimer(5)

\* Every startScanning of the last invocation is commanded in STATUS_INVALID
\* and followed by the arming of the 15 s timer and the entry to SCANNING.
StartsOnlyFromIdle ==
    \A i \in Events("startScanning") :
        /\ trace[i].val = {ESTATES.STATUS_INVALID}
        /\ i + 2 <= Len(trace)
        /\ trace[i + 1].op = "setInterval"
        /\ trace[i + 1].val = {DiscoveryMs}
        /\ trace[i + 2].op = "state"
        /\ trace[i + 2].val = {ESTATES.SCANNING}

\* C25: startScanning is commanded only on the transition from STATUS_INVALID
\* to SCANNING, and the transition is taken only with a request made since
\* the last scan completed (bQueryStarted: set by a request only, cleared when
\* a scan completes) or with an update interval configured; without interval
\* and request the scheduler rests in STATUS_INVALID with no timer and no
\* scan, until a request is made or the radio goes off.
C25_ScanOnlyOnRequestOrInterval ==
    /\ [](/\ StartsOnlyFromIdle
          /\ \A i \in Entries(ESTATES.SCANNING) : i > 2 /\ trace[i - 2].op = "startScanning"
          /\ Events("startScanning") # {} => (self.bQueryStarted \/ self.iUpdateInt # undefined)
          /\ self.bQueryStarted => nextCb > 0
          /\ self.eState = ESTATES.READY4ANSWER => ~self.bQueryStarted
          /\ self.eState = ESTATES.STATUS_INVALID =>
                 /\ ~self.bQueryStarted
                 /\ self.iUpdateInt = undefined
                 /\ self.iTimeoutId = undefined
                 /\ timers.live = {}
                 /\ ~noble.scanning)
    /\ [][(self'.bQueryStarted /\ ~self.bQueryStarted) => nextCb' = nextCb + 1]_vars
    /\ [][(self.eState = ESTATES.STATUS_INVALID /\ self'.eState # ESTATES.STATUS_INVALID) =>
              (nextCb' = nextCb + 1 \/ ~self.bHWReady)]_vars

\* Without an update interval the validity timer fired, no request had been
\* made since the scan, and the scheduler rests in STATUS_INVALID; a discover
\* event arrives there and starts nothing.
C25_RestsInIdle ==
    /\ Entered("discover", ESTATES.STATUS_INVALID)
    /\ self.bHWReady
    /\ self.iUpdateInt = undefined
    /\ nextCb > 0
    /\ self.eState = ESTATES.STATUS_INVALID
    /\ Commands = <<>>
    /\ timers.live = {}

\* The timers that run for the discovery timeout.
DiscoveryTimers == {t \in timers.live : t.ms = DiscoveryMs}

\* C26: every invocation that takes the scheduler out of SCANNING - by an
\* accepted device, by the discovery timeout, by the reset with the radio
\* off - commands stopScanning and clears the timer before it returns (the
\* timer is cleared unless none was armed any more): no scan is commanded
\* afterwards and the only live timer is the one armed after that; a 15 s
\* timer is live in SCANNING only.
C26_ScanExitStopsScanAndTimer ==
    /\ (trace # <<>> /\ trace[1].val = {ESTATES.SCANNING} /\ self.eState # ESTATES.SCANNING) =>
           /\ self.eState \in {ESTATES.READY4ANSWER, ESTATES.NOT_READY}
           /\ self.eState = ESTATES.NOT_READY <=> ~self.bHWReady
           /\ Commands \in {<<"clearTimeout", "stopScanning", "setInterval">>,
                            <<"stopScanning", "clearTimeout", "setInterval">>,
                            <<"stopScanning", "setInterval">>}
           /\ trace[1].kind = "timer" => Commands[1] = "clearTimeout"
           /\ ~noble.scanning
           /\ DiscoveryTimers = {}
           /\ Cardinality(timers.live) = 1
    /\ DiscoveryTimers # {} => self.eState = ESTATES.SCANNING

\* A discover event in SCANNING with the radio on: the device was accepted,
\* the scan stopped and the discovery timer cleared.
C26_AcceptedDeviceEndsScan ==
    /\ Entered("discover", ESTATES.SCANNING)
    /\ self.bHWReady
    /\ self.cRawStatus # undefined
    /\ self.eState = ESTATES.READY4ANSWER
    /\ Commands = <<"stopScanning", "clearTimeout", "setInterval">>
    /\ DiscoveryTimers = {}

\* C27: at most one timer is live, and it is the one the scheduler holds; a
\* timer is armed only when none is live: the one live before the invocation
\* has been cleared earlier in it, and between two armings of one invocation
\* lies a clearing; over every sequence of request, discovery, timer and
\* power events.
C27_OneTimerAtATime ==
    /\ [](/\ Cardinality(timers.live) <= 1
          /\ {t.id : t \in timers.live} = self.iTimeoutId
          /\ \A i, j \in Events("setInterval") :
                 i < j => \E k \in Events("clearTimeout") : i < k /\ k < j)
    /\ [][\A i \in DOMAIN trace' :
              (trace'[i].op = "setInterval" /\ timers.live # {}) =>
                  \E k \in 1..(i - 1) :
                      /\ trace'[k].op = "clearTimeout"
                      /\ trace'[k].val = self.iTimeoutId]_vars

\* A request in READY4ANSWER: the validity timer was cleared and the
\* discovery timer armed in its place, with a different id.
C27_TimerReplaced ==
    /\ Entered("get", ESTATES.READY4ANSWER)
    /\ \E i \in Events("clearTimeout"), j \in Events("setInterval") :
           i < j /\ trace[i].val # self.iTimeoutId
    /\ Cardinality(timers.live) = 1

\* Continuation id was handed in, is held in no slot and has not been
\* invoked: it was replaced in its slot.
Replaced(id) == id \in 1..nextCb /\ ~Held(id) /\ nCalls[id] = 0

\* C28: a slot holds at most one continuation, and a continuation is held in
\* at most one slot and invoked at most once. A request made while some
\* caller's continuation waits stores the new continuation in the slot of its
\* kind - in place of the one waiting there, if any - and leaves every other
\* slot as it is; no continuation is invoked by it. A continuation replaced
\* in its slot is never invoked.
C28_OneContinuationPerKind ==
    /\ [](/\ \A k \in KindSet : Cardinality(self.fCallback[k]) <= 1
          /\ \A j, k \in KindSet :
                 (CallerWaits(j) /\ self.fCallback[j] = self.fCallback[k]) => j = k
          /\ \A id \in 1..nextCb : nCalls[id] <= 1 /\ (Held(id) => nCalls[id] = 0))
    /\ [][(nextCb' = nextCb + 1 /\ \E j \in KindSet : CallerWaits(j)) =>
              /\ nCalls' = nCalls
              /\ \E k \in KindSet :
                     self'.fCallback = [self.fCallback EXCEPT ![k] = {Caller(nextCb')}]]_vars
    /\ [][\A id \in 1..MaxReq : Replaced(id) => Replaced(id)']_vars

\* Two requests of one kind were made before either was serviced; the scan
\* has ended, the later continuation has been invoked, the earlier has not.
C28_EarlierContinuationDropped ==
    /\ nextCb = 2
    /\ Replaced(1)
    /\ nCalls[2] = 1
    /\ self.eState = ESTATES.READY4ANSWER

ReadingOf(s) ==
    <<s.fTemperature, s.fIntTemperature, s.fExtTemperature,
      s.fIntHumidity, s.bExternalSensor, s.fBatteryLevel>>

\* The object s holding some other reading.
WithOtherReading(s) ==
    [s EXCEPT !.fTemperature = {12345}, !.fIntTemperature = {12345},
              !.fExtTemperature = {12345}, !.fIntHumidity = {12345},
              !.bExternalSensor = {TRUE}, !.fBatteryLevel = {123}]

\* C30: every decode overwrites the whole reading: after an invocation that
\* decoded, the reading is what parseStatus makes of the frame held whatever
\* reading was held before; it is empty after a scan that ended by timeout
\* and holds no temperature after a frame that failed the CRC comparison.
\* The reading changes in no invocation that does not decode, and every
\* continuation is answered from the reading the object holds, that of the
\* scan completed last.
C30_DecodeOverwritesReading ==
    /\ [](/\ Events("parseStatus") # {} =>
                 /\ ReadingOf(self) = ReadingOf(parseStatus(WithOtherReading(self)).s)
                 /\ self.cRawStatus = undefined =>
                        ReadingOf(self) = <<{}, {}, {}, {}, {}, {}>>
                 /\ HeldFrameFailedCrc =>
                        /\ self.fTemperature = undefined
                        /\ self.fIntTemperature = undefined
                        /\ self.fExtTemperature = undefined
          /\ \A i \in Serviced :
                 /\ trace[i].val = AnswerValue(self, trace[i].kind)
                 /\ \A j \in Events("parseStatus") : j < i)
    /\ [][(\A i \in DOMAIN trace' : trace'[i].op # "parseStatus") =>
              ReadingOf(self') = ReadingOf(self)]_vars

\* A single-view variant had decoded the frame 22.50 degrees of the external
\* probe (the checksum of that frame is still held); the scan after it ended
\* by timeout, the reading is empty and the request that waited was answered
\* with no temperature.
C30_TimeoutAfterReadingEmptiesCache ==
    /\ Entered("timer", ESTATES.SCANNING)
    /\ KnownVariant
    /\ ~self.bDualViewSensor
    /\ self.iCRC = {CrcOfStatus(CheckedFrame(2250, 5000, 1, 80))}
    /\ self.cRawStatus = undefined
    /\ ReadingOf(self) = <<{}, {}, {}, {}, {}, {}>>
    /\ \E i \in Events("callback") :
           /\ trace[i].cb = Caller(1)
           /\ trace[i].kind = "Temperature"
           /\ trace[i].val = undefined

\* The entries of the primed trace at which the continuation cb is invoked.
CalledNext(cb) == {i \in DOMAIN trace' : trace'[i].op = "callback" /\ trace'[i].cb = cb}

\* C31: the invocation that takes the scheduler from SCANNING to
\* READY4ANSWER decodes once and services every slot in which a caller's
\* continuation waits, of whatever kinds: each such continuation is invoked
\* once, after the decode, with the value of its kind in the reading just
\* decoded (temperature, humidity, sensor flag, battery level, low-battery
\* flag), and every slot is empty afterwards.
C31_PendingSlotsServicedTogether ==
    [][(self.eState = ESTATES.SCANNING /\ self'.eState = ESTATES.READY4ANSWER) =>
          /\ Cardinality({i \in DOMAIN trace' : trace'[i].op = "parseStatus"}) = 1
          /\ \A k \in KindSet : self'.fCallback[k] = undefined
          /\ \A k \in KindSet :
                 CallerWaits(k) =>
                     /\ Cardinality(CalledNext(Val(self.fCallback[k]))) = 1
                     /\ nCalls'[Val(self.fCallback[k]).id] = nCalls[Val(self.fCallback[k]).id] + 1
                     /\ \A i \in CalledNext(Val(self.fCallback[k])) :
                            /\ trace'[i].kind = k
                            /\ trace'[i].val = AnswerValue(self', k)
                            /\ \E j \in 1..(i - 1) : trace'[j].op = "parseStatus"]_vars

\* Two requests, for the battery level and for the sensor flag, waited during
\* the scan; the frame accepted was decoded and both were answered from it.
C31_TwoKindsAnsweredFromOneFrame ==
    /\ Entered("discover", ESTATES.SCANNING)
    /\ self.eState = ESTATES.READY4ANSWER
    /\ self.cRawStatus # undefined
    /\ \E i, j \in Events("callback") :
           /\ trace[i].kind = "ExtSensor"
           /\ trace[i].val = {Val(self.cRawStatus)[5] = 1}
           /\ trace[j].kind = "BatteryLevel"
           /\ trace[j].val = {Val(self.cRawStatus)[8]}
           /\ {trace[i].cb, trace[j].cb} = {Caller(1), Caller(2)}

\* Models that are not dual-view: two known variants, the sentinel and a name
\* that is not in DDMODELS.
SingleViewModels == {"IBS-TH1", "IBS-TH2", "not in list - try it anyway", "IBS-TH9"}

\* The last invocation decoded a frame to the end: parseStatus did not throw
\* and did not return on a CRC error.
DecodedToEnd ==
    /\ Events("parseStatus") # {}
    /\ self.cRawStatus # undefined
    /\ thrown = ""
    /\ ~HeldFrameFailedCrc

\* C32: for a variant that is not dual-view the configured sensor selection is
\* not used, the selection is auto: the sensor flag is the frame's flag byte,
\* the temperature is that of bytes 0-1 for the sensor the flag byte names
\* (the other temperature is absent, bytes 5-6 are never a temperature), and
\* these are the values delivered; for each such model and each configured
\* selection the constructor yields auto.
C32_SelectionIgnoredUnlessDualView ==
    /\ \A model \in SingleViewModels, sensor \in {undefined, {"auto"}, {"internal"}, {"external"}} :
           /\ Construct(CycleConfig(model, sensor, <<0, 0, 0>>)).strSensor = "auto"
           /\ ~Construct(CycleConfig(model, sensor, <<0, 0, 0>>)).bDualViewSensor
    /\ ~self.bDualViewSensor =>
           /\ self.strSensor = "auto"
           /\ DecodedToEnd =>
                  /\ self.bExternalSensor = {Val(self.cRawStatus)[5] = 1}
                  /\ Val(self.cRawStatus)[5] = 1 =>
                         /\ self.fExtTemperature = {Celsius(Raw01, self.fOffsetExtTemperature)}
                         /\ self.fIntTemperature = undefined
                         /\ self.fTemperature = self.fExtTemperature
                  /\ Val(self.cRawStatus)[5] # 1 =>
                         /\ self.fIntTemperature = {Celsius(Raw01, self.fOffsetIntTemperature)}
                         /\ self.fExtTemperature = undefined
                         /\ self.fTemperature = self.fIntTemperature
                  /\ \A i \in Serviced :
                         /\ trace[i].kind = "Temperature" => trace[i].val = self.fTemperature
                         /\ trace[i].kind = "ExtSensor" => trace[i].val = self.bExternalSensor

\* A single-view variant configured with the selection external decoded a
\* frame flagged internal and delivered the internal temperature and the flag
\* false to the requests that waited.
C32_ExternalConfiguredInternalDelivered ==
    /\ self.strModel = "IBS-TH1"
    /\ DecodedToEnd
    /\ Val(self.cRawStatus)[5] = 0
    /\ self.fExtTemperature = undefined
    /\ \E i \in Serviced : trace[i].kind = "Temperature" /\ trace[i].val = {1800}
    /\ \E i \in Events("callback") : trace[i].kind = "ExtSensor" /\ trace[i].val = {FALSE}

\* C33: every invocation ends, after at most three state changes in the
\* loop: from NOT_READY to STATUS_INVALID and on to SCANNING, from
\* READY4ANSWER to STATUS_INVALID and on to SCANNING, from SCANNING to
\* READY4ANSWER, or a part of these (from STATUS_INVALID to SCANNING for an
\* invocation made in STATUS_INVALID); the loop ends in a pass that leaves
\* the state as it is.
C33_LoopEndsWithinThreeChanges ==
    trace # <<>> =>
        /\ Len(Path) <= 3
        /\ thrown = "" => self.eOldState = {self.eState}
        /\ Path # <<>> => Path[Len(Path)] = self.eState
        /\ \/ Path = <<>>
           \/ /\ Path \in {<<ESTATES.STATUS_INVALID>>,
                            <<ESTATES.STATUS_INVALID, ESTATES.SCANNING>>}
              /\ \/ trace[1].val \in {{ESTATES.NOT_READY}, {ESTATES.READY4ANSWER}}
                 \/ trace[1].kind = "constructor"
           \/ /\ Path = <<ESTATES.READY4ANSWER>>
              /\ trace[1].val = {ESTATES.SCANNING}
           \/ /\ Path = <<ESTATES.SCANNING>>
              /\ trace[1].val = {ESTATES.STATUS_INVALID}

\* The validity timer fired in READY4ANSWER with a request flag set or an
\* interval configured: two state changes in one invocation.
C33_TwoChangesFromReadingReady ==
    /\ Entered("timer", ESTATES.READY4ANSWER)
    /\ Path = <<ESTATES.STATUS_INVALID, ESTATES.SCANNING>>
    /\ self.eOldState = {ESTATES.SCANNING}
    /\ thrown = ""

\* The timer the state calls for: the 5 s retry in NOT_READY, the 15 s
\* discovery timeout in SCANNING, the validity timer in READY4ANSWER, none in
\* STATUS_INVALID.
TimerOfState ==
    CASE self.eState = ESTATES.NOT_READY -> HoldsTimer(RetryMs \div 1000)
      [] self.eState = ESTATES.SCANNING -> HoldsTimer(DiscoveryMs \div 1000)
      [] self.eState = ESTATES.READY4ANSWER ->
             HoldsTimer(IF self.iUpdateInt # undefined THEN Val(self.iUpdateInt)
                        ELSE DefaultValiditySec)
      [] self.eState = ESTATES.STATUS_INVALID ->
             timers.live = {} /\ self.iTimeoutId = undefined

\* Nothing will invoke the scheduler in STATUS_INVALID: no request waits and
\* no update interval is configured.
IdleAtRest ==
    /\ self.eState = ESTATES.STATUS_INVALID
    /\ ~self.bQueryStarted
    /\ \A k \in KindSet : self.fCallback[k] = undefined
    /\ self.iUpdateInt = undefined

C35_FilledSlotOnlyOffOrScanning ==
    \A k \in KindSet :
        self.fCallback[k] # undefined =>
            /\ self.eState \in {ESTATES.NOT_READY, ESTATES.SCANNING}
            /\ CallerWaits(k)

\* The discovery timer fired with the radio off and a caller waiting: the
\* scheduler is in NOT_READY and the slot is still filled.
C35_SlotFilledAfterRadioLoss ==
    /\ Entered("timer", ESTATES.SCANNING)
    /\ self.eState = ESTATES.NOT_READY
    /\ \E k \in KindSet : CallerWaits(k)

\* C36: startScanning is commanded only in an invocation made while the last
\* power report is poweredOn, in the STATUS_INVALID pass, at most once per
\* invocation and with the radio not scanning; it is never commanded in an
\* invocation that began in SCANNING, and every step that takes the scheduler
\* out of SCANNING commands stopScanning: between two startScanning commands
\* lies a stopScanning of the scheduler's own.
C36_StartScanOnlyPoweredOnAndStopped ==
    /\ [](/\ Cardinality(Events("startScanning")) <= 1
          /\ \A i \in Events("startScanning") :
                 /\ self.bHWReady
                 /\ trace[i].kind = "idle"
                 /\ trace[i].val = {ESTATES.STATUS_INVALID}
                 /\ self.eState = ESTATES.SCANNING)
    /\ [][(\E i \in DOMAIN trace' : trace'[i].op = "startScanning") =>
              /\ self.bHWReady
              /\ self.eState # ESTATES.SCANNING]_vars
    /\ [][(self.eState = ESTATES.SCANNING /\ self'.eState # ESTATES.SCANNING) =>
              \E i \in DOMAIN trace' : trace'[i].op = "stopScanning"]_vars

\* A second scan: a frame was decoded in an earlier scan, and an invocation
\* made in READY4ANSWER commanded startScanning with the radio stopped.
C36_SecondScanAfterOwnStop ==
    /\ \E by \in {"get", "timer"} : Entered(by, ESTATES.READY4ANSWER)
    /\ self.iCRC # undefined
    /\ \E i \in Events("startScanning") : trace[i].kind = "idle"
    /\ self.bHWReady
    /\ noble.scanning

\* The length the plausibility check demands of the manufacturer data of the
\* configured variant.
DataLength == Val(self.dSensorCfg).datalength

\* C37: with a known variant the buffer the scheduler holds, and so the one
\* parseStatus runs on, is absent or has exactly the 9 bytes of the variant's
\* datalength, and parseStatus throws no RangeError; a RangeError is thrown
\* only with the sentinel, by parseStatus, on a buffer of fewer than 8 bytes.
C37_KnownVariantDecodesNineBytes ==
    /\ KnownVariant =>
           /\ DataLength = 9
           /\ self.cRawStatus # undefined => Len(Val(self.cRawStatus)) = DataLength
           /\ thrown # "RangeError"
    /\ thrown = "RangeError" =>
           /\ IsSentinel(self.dSensorCfg)
           /\ Events("parseStatus") # {}
           /\ self.cRawStatus # undefined
           /\ Len(Val(self.cRawStatus)) < 8

\* A known variant accepted a peripheral and parseStatus ran on its 9 bytes.
C37_KnownVariantDecodedNineBytes ==
    /\ KnownVariant
    /\ Entered("discover", ESTATES.SCANNING)
    /\ Events("found") # {}
    /\ Events("parseStatus") # {}
    /\ self.cRawStatus # undefined
    /\ Len(Val(self.cRawStatus)) = 9

\* C38: a waiting caller keeps the request flag set, and NOT_READY keeps the
\* retry timer armed. An invocation made in NOT_READY answers nobody and
\* empties no slot; while the radio is off it ends in NOT_READY; with the
\* radio on and a slot filled - before it or by it - it commands
\* startScanning and ends in SCANNING with the discovery timer armed. An
\* invocation made in SCANNING while the radio is off ends in NOT_READY,
\* answers nobody and empties no slot.
C38_RequestKeptWhileOffScannedWhenOn ==
    /\ [](/\ \A k \in KindSet : CallerWaits(k) => self.bQueryStarted
          /\ self.eState = ESTATES.NOT_READY => HoldsTimer(RetryMs \div 1000))
    /\ [][(trace' # <<>> /\ self.eState = ESTATES.NOT_READY) =>
              /\ nCalls' = nCalls
              /\ \A i \in DOMAIN trace' : trace'[i].op \notin {"callback", "updateCharacteristic"}
              /\ \A k \in KindSet : self.fCallback[k] # undefined => self'.fCallback[k] # undefined
              /\ ~self.bHWReady => self'.eState = ESTATES.NOT_READY
              /\ (self.bHWReady /\ \E k \in KindSet : self'.fCallback[k] # undefined) =>
                     /\ self'.eState = ESTATES.SCANNING
                     /\ \E i \in DOMAIN trace' : trace'[i].op = "startScanning"
                     /\ self'.iTimeoutId # undefined
                     /\ timers'.live = {[id |-> Val(self'.iTimeoutId), ms |-> DiscoveryMs]}]_vars
    /\ [][(trace' # <<>> /\ self.eState = ESTATES.SCANNING /\ ~self.bHWReady) =>
              /\ self'.eState = ESTATES.NOT_READY
              /\ nCalls' = nCalls
              /\ \A k \in KindSet : self.fCallback[k] # undefined => self'.fCallback[k] # undefined]_vars

\* The retry timer fired after the radio reported power-on: without an
\* update interval, the scan is started for the caller who has been waiting
\* and has not been answered.
C38_RetryStartsScanForWaitingCaller ==
    /\ Entered("timer", ESTATES.NOT_READY)
    /\ self.bHWReady
    /\ self.iUpdateInt = undefined
    /\ Held(1)
    /\ nCalls[1] = 0
    /\ nextCb = 1
    /\ Events("startScanning") # {}
    /\ self.eState = ESTATES.SCANNING

\* C39: in every step that takes the scheduler from SCANNING to
\* READY4ANSWER each of the five kinds is delivered exactly once, with a null
\* error and the value held after the decode, absent or not: to the
\* continuation of the caller who waited for the kind, and to the update
\* pusher, which updates the characteristic, when no caller waited; the
\* update pusher is invoked in no other step.
C39_EachKindDeliveredOncePerCycle ==
    /\ [](/\ Events("callbackError") = {}
          /\ Events("updateCharacteristic") # {} =>
                 /\ Events("parseStatus") # {}
                 /\ self.eState = ESTATES.READY4ANSWER)
    /\ [][(self.eState = ESTATES.SCANNING /\ self'.eState = ESTATES.READY4ANSWER) =>
              \A k \in KindSet :
                  \E i \in DOMAIN trace' :
                      /\ trace'[i].kind = k
                      /\ trace'[i].op =
                             IF self.fCallback[k] # undefined THEN "callback"
                             ELSE "updateCharacteristic"
                      /\ trace'[i].cb =
                             IF self.fCallback[k] # undefined THEN Val(self.fCallback[k])
                             ELSE UpdateFn
                      /\ trace'[i].val = AnswerValue(self', k)
                      /\ \A j \in DOMAIN trace' :
                             (/\ trace'[j].op \in {"callback", "callbackError",
                                                   "updateCharacteristic"}
                              /\ trace'[j].kind = k) => j = i]_vars

\* Cyclic mode, no request made: the discovery timer fired, and all five
\* kinds went to the update pusher, temperature and humidity absent.
C39_FivePushedAfterTimeoutWithoutRequest ==
    /\ nextCb = 0
    /\ Entered("timer", ESTATES.SCANNING)
    /\ self.eState = ESTATES.READY4ANSWER
    /\ {trace[i].kind : i \in Events("updateCharacteristic")} = KindSet
    /\ Cardinality(Events("updateCharacteristic")) = 5
    /\ \A i \in Events("updateCharacteristic") :
           trace[i].kind \in {"Temperature", "Humidity"} => trace[i].val = undefined

====
